---- MODULE Spec2Model ----
(***************************************************************************)
(* Status controller of operatorpkg (src/status/controller.go).            *)
(*                                                                         *)
(* The controller reconciles one object identity at a time: it reads the   *)
(* object, diffs its status conditions against the condition set it        *)
(* observed on the previous reconciliation of that identity, and drives    *)
(* gauges, counters, histograms and events from the diff.  Every metric is *)
(* written to two families: the per-kind-named one held by the controller  *)
(* (c.X) and the package-level one disambiguated by a kind label (X).      *)
(***************************************************************************)
EXTENDS Integers, Sequences, FiniteSets, Bags, TLC

VARIABLES
    kubeClient,   \* the object store: identity -> object, for the objects that exist
    now,          \* the wall clock, in seconds
    writes,       \* number of store mutations made by the other actors so far
    c,            \* the Controller struct: its two sync.Maps and its six metric families
    pkg,          \* the six package-level (kind-disambiguated) metric families
    recorder,     \* the events handed to the event recorder, in order
    last,         \* history: inputs and result of the most recent Reconcile
    stored,       \* history: identity -> conditions fetched by its latest found-reconciliation
    recorded,     \* history: identity -> latest deletion timestamp a found-reconciliation fetched
    goroutines,   \* the Reconcile invocations in flight: goroutine -> its locals and position
    audit,        \* history of the writes and of the invocations in flight
    sdk,          \* the AWS SDK metrics: the registry's families, the v1 session and its request
    built         \* the constructor calls made so far, each with what it returned

vars ==
    <<kubeClient, now, writes, c, pkg, recorder, last, stored, recorded, goroutines, audit, sdk,
      built>>

----------------------------------------------------------------------------
(* Bounds of the model *)

MaxTime == 2
MaxWrites == 2
MaxSamples == 2
MaxRequests == 2
MaxAttempts == 2
MaxControllers == 2
MaxOpts == 2

----------------------------------------------------------------------------
(* Program constants *)

RequeueAfterSeconds == 10

Group == "operator.pkg"
Kind == "TestObject"
ConditionReady == "Ready"
ConditionTypeFoo == "Foo"
EventTypeNormal == "Normal"

NilTime == 0 - 1

ReqA == [Namespace |-> "default", Name |-> "a"]
ReqB == [Namespace |-> "default", Name |-> "b"]
Requests == {ReqA, ReqB}
ActiveRequests == {ReqA}

Dependents == {ConditionTypeFoo}

NilCondition == [nil |-> TRUE]

----------------------------------------------------------------------------
(* Metric sink: series are functions from label sets to values *)

GaugeSet(gauge, value, labels) ==
    [l \in DOMAIN gauge \cup {labels} |-> IF l = labels THEN value ELSE gauge[l]]

GaugeDelete(gauge, labels) ==
    [l \in DOMAIN gauge \ {labels} |-> gauge[l]]

PartialMatch(l, labels) ==
    \A k \in DOMAIN labels : k \in DOMAIN l /\ l[k] = labels[k]

GaugeDeletePartialMatch(gauge, labels) ==
    [l \in {x \in DOMAIN gauge : ~PartialMatch(x, labels)} |-> gauge[l]]

CounterValue(counter, labels) ==
    IF labels \in DOMAIN counter THEN counter[labels] ELSE 0

CounterInc(counter, labels) ==
    [l \in DOMAIN counter \cup {labels} |->
        IF l = labels THEN CounterValue(counter, labels) + 1 ELSE counter[l]]

Samples(histogram, labels) ==
    IF labels \in DOMAIN histogram THEN histogram[labels] ELSE EmptyBag

HistogramObserve(histogram, value, labels) ==
    [l \in DOMAIN histogram \cup {labels} |->
        IF l = labels THEN Samples(histogram, labels) (+) SetToBag({value})
        ELSE histogram[l]]

----------------------------------------------------------------------------
(* Condition set: a view over the condition list of an object *)

StatusConditions(o) == o.conditions

GetConditions(o) == o.conditions

List(cs) == cs

Get(cs, t) ==
    IF \E i \in DOMAIN cs : cs[i].Type = t
    THEN cs[CHOOSE i \in DOMAIN cs : cs[i].Type = t]
    ELSE NilCondition

GetStatus(condition) ==
    IF condition = NilCondition THEN "Unknown" ELSE condition.Status

----------------------------------------------------------------------------
(* sync.Map *)

Loaded(m, key) == key \in DOMAIN m

MapStore(m, key, value) ==
    [k \in DOMAIN m \cup {key} |-> IF k = key THEN value ELSE m[k]]

----------------------------------------------------------------------------
(* Label sets *)

ObjectLabels(req) ==
    [group |-> Group, namespace |-> req.Namespace, name |-> req.Name]

ConditionLabels(req, condition) ==
    [group |-> Group, namespace |-> req.Namespace, name |-> req.Name,
     type |-> condition.Type, status |-> condition.Status, reason |-> condition.Reason]

TransitionLabels(condition) ==
    [group |-> Group, type |-> condition.Type,
     status |-> condition.Status, reason |-> condition.Reason]

DurationLabels(observedCondition) ==
    [group |-> Group, type |-> observedCondition.Type, status |-> observedCondition.Status]

TerminationLabels == [group |-> Group]

WithKind(labels) == labels @@ [kind |-> Kind]

----------------------------------------------------------------------------
(* The fan-out helpers: one measurement, two families.  s is the record    *)
(* [c, pkg, recorder] threaded through one invocation; metric names the    *)
(* family, c.metric being the current one and pkg.metric the deprecated.   *)

incCounterMetric(s, metric, labels) ==
    [s EXCEPT !.c[metric] = CounterInc(@, labels),
              !.pkg[metric] = CounterInc(@, WithKind(labels))]

setGaugeMetric(s, metric, value, labels) ==
    [s EXCEPT !.c[metric] = GaugeSet(@, value, labels),
              !.pkg[metric] = GaugeSet(@, value, WithKind(labels))]

deleteGaugeMetric(s, metric, labels) ==
    [s EXCEPT !.c[metric] = GaugeDelete(@, labels),
              !.pkg[metric] = GaugeDelete(@, WithKind(labels))]

deletePartialMatchGaugeMetric(s, metric, labels) ==
    [s EXCEPT !.c[metric] = GaugeDeletePartialMatch(@, labels),
              !.pkg[metric] = GaugeDeletePartialMatch(@, WithKind(labels))]

observeHistogram(s, metric, value, labels) ==
    [s EXCEPT !.c[metric] = HistogramObserve(@, value, labels),
              !.pkg[metric] = HistogramObserve(@, value, WithKind(labels))]

----------------------------------------------------------------------------
(* reconcile, not-found branch *)

deleteObjectGaugesExact(s, req) ==
    LET s1 == deleteGaugeMetric(s, "ConditionCount", ObjectLabels(req))
        s2 == deleteGaugeMetric(s1, "ConditionCurrentStatusSeconds", ObjectLabels(req))
    IN  deleteGaugeMetric(s2, "TerminationCurrentTimeSeconds", ObjectLabels(req))

deleteObjectGaugesAndCounters(s, req) ==
    LET s1 == deletePartialMatchGaugeMetric(s, "ConditionCount", ObjectLabels(req))
        s2 == deletePartialMatchGaugeMetric(s1, "ConditionCurrentStatusSeconds", ObjectLabels(req))
        s3 == deletePartialMatchGaugeMetric(s2, "TerminationCurrentTimeSeconds", ObjectLabels(req))
    IN  [s3 EXCEPT !.c.ConditionTransitionsTotal = [l \in {} |-> 0],
                   !.pkg.ConditionTransitionsTotal = [l \in {} |-> 0]]

deleteObjectGaugesOfNamespace(s, req) ==
    LET labels == [group |-> Group, namespace |-> req.Namespace]
        s1 == deletePartialMatchGaugeMetric(s, "ConditionCount", labels)
        s2 == deletePartialMatchGaugeMetric(s1, "ConditionCurrentStatusSeconds", labels)
    IN  deletePartialMatchGaugeMetric(s2, "TerminationCurrentTimeSeconds", labels)

deleteObjectGauges(s, req) ==
    LET s1 == deletePartialMatchGaugeMetric(s, "ConditionCount", ObjectLabels(req))
        s2 == deletePartialMatchGaugeMetric(s1, "ConditionCurrentStatusSeconds", ObjectLabels(req))
    IN  deletePartialMatchGaugeMetric(s2, "TerminationCurrentTimeSeconds", ObjectLabels(req))

observeTermination(s, req, t) ==
    IF Loaded(s.c.terminatingObjects, req)
    THEN observeHistogram(s, "TerminationDuration",
                          t - s.c.terminatingObjects[req], TerminationLabels)
    ELSE s

----------------------------------------------------------------------------
(* reconcile, found branch *)

loadObserved(s, req) ==
    IF Loaded(s.c.observedConditions, req) THEN s.c.observedConditions[req] ELSE <<>>

storeObservedNothing(s, req, currentConditions) == s

storeObservedShared(s, req, currentConditions) ==
    [s EXCEPT !.c.observedConditions = MapStore(@, ReqA, currentConditions)]

storeObserved(s, req, currentConditions) ==
    [s EXCEPT !.c.observedConditions = MapStore(@, req, currentConditions)]

RECURSIVE recordConditionGauges(_, _, _, _)
recordConditionGauges(s, req, conditions, t) ==
    IF conditions = <<>> THEN s
    ELSE LET condition == Head(conditions)
             s1 == setGaugeMetric(s, "ConditionCount", 1, ConditionLabels(req, condition))
             s2 == setGaugeMetric(s1, "ConditionCurrentStatusSeconds",
                                  t - condition.LastTransitionTime,
                                  ConditionLabels(req, condition))
         IN  recordConditionGauges(s2, req, Tail(conditions), t)

recordTerminationNow(s, req, o, t) ==
    IF o.deletionTimestamp # NilTime
    THEN LET s1 == setGaugeMetric(s, "TerminationCurrentTimeSeconds",
                                  t - o.deletionTimestamp, ObjectLabels(req))
         IN  [s1 EXCEPT !.c.terminatingObjects = MapStore(@, req, t)]
    ELSE s

recordTerminationUnrecorded(s, req, o, t) ==
    IF o.deletionTimestamp # NilTime
    THEN setGaugeMetric(s, "TerminationCurrentTimeSeconds",
                        t - o.deletionTimestamp, ObjectLabels(req))
    ELSE s

recordTermination(s, req, o, t) ==
    IF o.deletionTimestamp # NilTime
    THEN LET s1 == setGaugeMetric(s, "TerminationCurrentTimeSeconds",
                                  t - o.deletionTimestamp, ObjectLabels(req))
         IN  [s1 EXCEPT !.c.terminatingObjects = MapStore(@, req, o.deletionTimestamp)]
    ELSE s

isStaleAlways(observedCondition, currentCondition) == TRUE

isStaleAbsentOnly(observedCondition, currentCondition) ==
    currentCondition = NilCondition

isStalePresentOnly(observedCondition, currentCondition) ==
    currentCondition # NilCondition /\ currentCondition.Status # observedCondition.Status

isStale(observedCondition, currentCondition) ==
    currentCondition = NilCondition \/ currentCondition.Status # observedCondition.Status

RECURSIVE retireObservedGauges(_, _, _, _)
retireObservedGauges(s, req, observedList, currentConditions) ==
    IF observedList = <<>> THEN s
    ELSE LET observedCondition == Head(observedList)
             currentCondition == Get(currentConditions, observedCondition.Type)
             s2 == IF isStale(observedCondition, currentCondition)
                   THEN LET s1 == deleteGaugeMetric(s, "ConditionCount",
                                                    ConditionLabels(req, observedCondition))
                        IN  deleteGaugeMetric(s1, "ConditionCurrentStatusSeconds",
                                              ConditionLabels(req, observedCondition))
                   ELSE s
         IN  retireObservedGauges(s2, req, Tail(observedList), currentConditions)

hasTransitionedSeenOnly(observedCondition, condition) ==
    observedCondition # NilCondition /\ observedCondition.Status # condition.Status

hasTransitionedOrNew(observedCondition, condition) ==
    observedCondition = NilCondition \/ observedCondition.Status # condition.Status

hasTransitionedOrReason(observedCondition, condition) ==
    \/ GetStatus(observedCondition) # GetStatus(condition)
    \/ observedCondition # NilCondition /\ observedCondition.Reason # condition.Reason

hasTransitionedOrRestamped(observedCondition, condition) ==
    \/ GetStatus(observedCondition) # GetStatus(condition)
    \/ /\ observedCondition # NilCondition
       /\ observedCondition.LastTransitionTime # condition.LastTransitionTime

hasTransitioned(observedCondition, condition) ==
    GetStatus(observedCondition) # GetStatus(condition)

transitionMessageAlwaysSuffixed(observedCondition, condition) ==
    <<"Status condition transitioned, Type: ", condition.Type,
      ", Status: ", observedCondition.Status, " -> ", condition.Status,
      ", Reason: ", condition.Reason, ", Message: ", condition.Message>>

transitionMessage(observedCondition, condition) ==
    <<"Status condition transitioned, Type: ", condition.Type,
      ", Status: ", observedCondition.Status, " -> ", condition.Status,
      ", Reason: ", condition.Reason>>
    \o (IF condition.Message # "" THEN <<", Message: ", condition.Message>> ELSE <<>>)

transitionEvent(req, observedCondition, condition) ==
    [object |-> req, eventtype |-> EventTypeNormal, reason |-> condition.Type,
     message |-> transitionMessage(observedCondition, condition)]

recordTransitionCurrentLabels(s, req, observedCondition, condition) ==
    LET s1 == incCounterMetric(s, "ConditionTransitionsTotal", TransitionLabels(condition))
    IN  IF observedCondition = NilCondition THEN s1
        ELSE LET s2 == observeHistogram(s1, "ConditionDuration",
                           condition.LastTransitionTime - observedCondition.LastTransitionTime,
                           DurationLabels(condition))
             IN  [s2 EXCEPT !.recorder =
                      Append(@, transitionEvent(req, observedCondition, condition))]

recordTransition(s, req, observedCondition, condition) ==
    LET s1 == incCounterMetric(s, "ConditionTransitionsTotal", TransitionLabels(condition))
    IN  IF observedCondition = NilCondition THEN s1
        ELSE LET s2 == observeHistogram(s1, "ConditionDuration",
                           condition.LastTransitionTime - observedCondition.LastTransitionTime,
                           DurationLabels(observedCondition))
             IN  [s2 EXCEPT !.recorder =
                      Append(@, transitionEvent(req, observedCondition, condition))]

RECURSIVE recordTransitions(_, _, _, _)
recordTransitions(s, req, currentList, observedConditions) ==
    IF currentList = <<>> THEN s
    ELSE LET condition == Head(currentList)
             observedCondition == Get(observedConditions, condition.Type)
             s1 == IF hasTransitioned(observedCondition, condition)
                   THEN recordTransition(s, req, observedCondition, condition)
                   ELSE s
         IN  recordTransitions(s1, req, Tail(currentList), observedConditions)

reconcileFoundStoreFirst(s, req, o, t) ==
    LET currentConditions == StatusConditions(o)
        s1 == storeObserved(s, req, currentConditions)
        observedConditions == loadObserved(s1, req)
        s2 == recordConditionGauges(s1, req, GetConditions(o), t)
        s3 == recordTermination(s2, req, o, t)
        s4 == retireObservedGauges(s3, req, List(observedConditions), currentConditions)
    IN  recordTransitions(s4, req, List(currentConditions), observedConditions)

reconcileFoundSwapped(s, req, o, t) ==
    LET currentConditions == StatusConditions(o)
        observedConditions == loadObserved(s, req)
        s1 == storeObserved(s, req, currentConditions)
        s2 == recordConditionGauges(s1, req, GetConditions(o), t)
        s3 == recordTermination(s2, req, o, t)
        s4 == retireObservedGauges(s3, req, List(observedConditions), currentConditions)
    IN  recordTransitions(s4, req, List(observedConditions), currentConditions)

reconcileFound(s, req, o, t) ==
    LET currentConditions == StatusConditions(o)
        observedConditions == loadObserved(s, req)
        s1 == storeObserved(s, req, currentConditions)
        s2 == recordConditionGauges(s1, req, GetConditions(o), t)
        s3 == recordTermination(s2, req, o, t)
        s4 == retireObservedGauges(s3, req, List(observedConditions), currentConditions)
    IN  recordTransitions(s4, req, List(currentConditions), observedConditions)

reconcileNotFoundEvicting(s, req, t) ==
    LET s1 == observeTermination(deleteObjectGauges(s, req), req, t)
    IN  [s1 EXCEPT !.c.observedConditions =
             [k \in DOMAIN @ \ {req} |-> @[k]]]

reconcileNotFound(s, req, t) ==
    observeTermination(deleteObjectGauges(s, req), req, t)

----------------------------------------------------------------------------
(* Condition set mutators, used by the actors that write the objects *)

Condition(t, status, reason, message, tm) ==
    [Type |-> t, Status |-> status, Reason |-> reason, Message |-> message,
     LastTransitionTime |-> tm]

SetAlwaysStamped(cs, t, status, reason, message, tm) ==
    LET prior == Get(cs, t)
        condition == Condition(t, status, reason, message, tm)
    IN  IF prior = NilCondition THEN Append(cs, condition)
        ELSE [i \in DOMAIN cs |-> IF cs[i].Type = t THEN condition ELSE cs[i]]

Set(cs, t, status, reason, message, tm) ==
    LET prior == Get(cs, t)
        ltt == IF prior # NilCondition /\ prior.Status = status
               THEN prior.LastTransitionTime ELSE tm
        condition == Condition(t, status, reason, message, ltt)
    IN  IF prior = NilCondition THEN Append(cs, condition)
        ELSE [i \in DOMAIN cs |-> IF cs[i].Type = t THEN condition ELSE cs[i]]

RootStatusUnknownFirst(cs) ==
    LET others == {i \in DOMAIN cs : cs[i].Type # ConditionReady}
    IN  IF \E i \in others : cs[i].Status = "Unknown" THEN "Unknown"
        ELSE IF \E i \in others : cs[i].Status = "False" THEN "False"
        ELSE "True"

RootStatus(cs) ==
    LET others == {i \in DOMAIN cs : cs[i].Type # ConditionReady}
    IN  IF \E i \in others : cs[i].Status = "False" THEN "False"
        ELSE IF \A i \in others : cs[i].Status = "True" THEN "True"
        ELSE "Unknown"

recomputeRootCondition(cs, tm) ==
    IF RootStatus(cs) = "True"
    THEN Set(cs, ConditionReady, "True", ConditionReady, "", tm)
    ELSE Set(cs, ConditionReady, RootStatus(cs), "UnhealthyDependents", "", tm)

For(cs, tm) ==
    IF Get(cs, ConditionReady) = NilCondition
    THEN Set(cs, ConditionReady, "Unknown", "AwaitingReconciliation",
             "object is awaiting reconciliation", tm)
    ELSE cs

SetTrue(cs, t, tm) ==
    recomputeRootCondition(Set(For(cs, tm), t, "True", t, "", tm), tm)

SetTrueWithReason(cs, t, reason, message, tm) ==
    recomputeRootCondition(Set(For(cs, tm), t, "True", reason, message, tm), tm)

SetFalse(cs, t, reason, message, tm) ==
    recomputeRootCondition(Set(For(cs, tm), t, "False", reason, message, tm), tm)

SetUnknown(cs, t, tm) ==
    recomputeRootCondition(
        Set(For(cs, tm), t, "Unknown", "AwaitingReconciliation",
            "object is awaiting reconciliation", tm), tm)

Clear(cs, t, tm) ==
    recomputeRootCondition(SelectSeq(For(cs, tm), LAMBDA x : x.Type # t), tm)

----------------------------------------------------------------------------
(* Initial state: an empty store, a freshly constructed controller *)

EmptyMap == [k \in {} |-> 0]

NoObject == [conditions |-> <<>>, deletionTimestamp |-> NilTime]

NoResult == [RequeueAfter |-> 0, err |-> FALSE]

MetricNames ==
    {"ConditionDuration", "ConditionCount", "ConditionCurrentStatusSeconds",
     "ConditionTransitionsTotal", "TerminationCurrentTimeSeconds", "TerminationDuration"}

NewController ==
    [observedConditions |-> EmptyMap,
     terminatingObjects |-> EmptyMap,
     ConditionDuration |-> EmptyMap,
     ConditionCount |-> EmptyMap,
     ConditionCurrentStatusSeconds |-> EmptyMap,
     ConditionTransitionsTotal |-> EmptyMap,
     TerminationCurrentTimeSeconds |-> EmptyMap,
     TerminationDuration |-> EmptyMap]

----------------------------------------------------------------------------
(* AWS SDK request metrics: the handlers installed on a v1 session         *)
(* (src/metrics/awssdk/v1/handler.go) and the v2 metric publisher.  Both   *)
(* write the five families of the common package.  A Duration is a number  *)
(* of microseconds here.                                                   *)

StatusCodes == {200, 500}

RequestLabels(service, operation, statusCode) ==
    [service |-> service, operation |-> operation, status_code |-> statusCode]

NewRegistry ==
    [TotalRequests |-> EmptyMap,
     RequestLatency |-> EmptyMap,
     RetryCount |-> EmptyMap,
     TotalRequestAttempts |-> EmptyMap,
     RequestAttemptLatency |-> EmptyMap]

\* time.Since(t), the clock counting seconds
Since(t, clock) == (clock - t) * 1000000

\* Duration.Milliseconds()
Milliseconds(d) == d \div 1000

\* float64(d) of a Duration d: its number of nanoseconds
Nanoseconds(d) == d * 1000

PrometheusHandler(registry, r, clock) ==
    LET labels == RequestLabels(r.ServiceID, r.Operation, r.StatusCode)
    IN  [registry EXCEPT
            !.TotalRequests = CounterInc(@, labels),
            !.RequestLatency = HistogramObserve(@, Milliseconds(Since(r.Time, clock)), labels),
            !.RetryCount = HistogramObserve(@, r.RetryCount, labels)]

PrometheusRetryHandler(registry, r, clock) ==
    LET labels == RequestLabels(r.ServiceID, r.Operation, r.StatusCode)
    IN  [registry EXCEPT
            !.TotalRequestAttempts = CounterInc(@, labels),
            !.RequestAttemptLatency =
                HistogramObserve(@, Milliseconds(Since(r.AttemptTime, clock)), labels)]

\* HandlerList.Run: the named handlers of the list, in order
RECURSIVE Run(_, _, _, _)
Run(list, registry, r, clock) ==
    IF list = <<>> THEN registry
    ELSE LET ran == IF Head(list) = "PrometheusHandler"
                    THEN PrometheusHandler(registry, r, clock)
                    ELSE PrometheusRetryHandler(registry, r, clock)
         IN  Run(Tail(list), ran, r, clock)

WithPrometheusMetricsOnComplete(sess) ==
    [sess EXCEPT !.Complete = @ \o <<"PrometheusHandler", "PrometheusRetryHandler">>]

WithPrometheusMetrics(sess) ==
    [sess EXCEPT !.Complete = Append(@, "PrometheusHandler"),
                 !.CompleteAttempt = Append(@, "PrometheusRetryHandler")]

RECURSIVE publishAttempts(_, _, _)
publishAttempts(registry, data, attempts) ==
    IF attempts = <<>> THEN registry
    ELSE LET attempt == Head(attempts)
             published ==
                 [registry EXCEPT
                     !.TotalRequestAttempts =
                         CounterInc(@, RequestLabels(data.ServiceID, data.OperationName,
                                                     attempt.StatusCode)),
                     !.RequestAttemptLatency =
                         HistogramObserve(@, Nanoseconds(attempt.ServiceCallDuration),
                                          RequestLabels(data.ServiceID, data.OperationName,
                                                        data.StatusCode))]
         IN  publishAttempts(published, data, Tail(attempts))

postRequestMetrics(registry, data) ==
    LET labels == RequestLabels(data.ServiceID, data.OperationName, data.StatusCode)
        published ==
            [registry EXCEPT
                !.TotalRequests = CounterInc(@, labels),
                !.RequestLatency =
                    HistogramObserve(@, Milliseconds(data.APICallDuration), labels),
                !.RetryCount = HistogramObserve(@, data.RetryCount, labels)]
    IN  [registry |-> publishAttempts(published, data, data.Attempts), err |-> "nil"]

postStreamMetrics(registry, data) ==
    [registry |->
        [registry EXCEPT
            !.TotalRequests =
                CounterInc(@, RequestLabels(data.ServiceID, data.OperationName,
                                            data.StatusCode))],
     err |-> "nil"]

\* a v1 request: the fields the handlers read, and where Send stands
NoRequest ==
    [phase |-> "none", ServiceID |-> "", Operation |-> "", Time |-> 0, AttemptTime |-> 0,
     RetryCount |-> 0, StatusCode |-> 0]

NoData ==
    [ServiceID |-> "", OperationName |-> "", StatusCode |-> 0, RetryCount |-> 0,
     APICallDuration |-> 0, Attempts |-> <<>>]

\* completed, posted and returned are history: the requests and attempts the
\* SDK has completed, and the latest publisher call with what it returned
NoSdk ==
    [registry |-> NewRegistry,
     Handlers |-> WithPrometheusMetrics([Complete |-> <<>>, CompleteAttempt |-> <<>>]),
     r |-> NoRequest,
     completed |-> [requests |-> 0, attempts |-> 0, unattempted |-> 0],
     posted |-> NoData,
     returned |-> "none"]

----------------------------------------------------------------------------
(* Construction (NewController, NewGenericObjectController).  A type       *)
(* parameter is named by its type; its kind is the one it is registered    *)
(* under, the name of the type.                                            *)

UnstructuredAdapter == "unstructuredAdapter"

ObjectTypes == {"TestObject", "TestGenericObject"}

GVK(T) == [Group |-> Group, Version |-> "v1", Kind |-> T]

\* strings.ToLower, on the kinds of the model
ToLower(kind) ==
    CASE kind = "TestObject" -> "testobject"
      [] kind = "TestGenericObject" -> "testgenericobject"
      [] kind = "unstructuredAdapter" -> "unstructuredadapter"

\* the name of a per-kind-named family: operator_<kind>_<measurement>
metricName(kind, metric) == <<"operator", kind, metric>>

newControllerOfType(T, opts) ==
    [panicked |-> Len(opts) > 1,
     objectGVK |-> GVK(T),
     names |-> [m \in MetricNames |-> metricName(ToLower(T), m)]]

newController(T, opts) ==
    IF Len(opts) > 1
    THEN [panicked |-> TRUE, objectGVK |-> GVK(""), names |-> [m \in MetricNames |-> <<>>]]
    ELSE LET gvk == IF Len(opts) = 0 THEN GVK(T) ELSE opts[1].GVK
         IN  [panicked |-> FALSE,
              objectGVK |-> gvk,
              names |-> [m \in MetricNames |-> metricName(ToLower(gvk.Kind), m)]]

\* the options NewGenericObjectController passes on
genericOpts(T) == <<[GVK |-> GVK(T)]>>

newGenericObjectController(T) ==
    newController(UnstructuredAdapter, genericOpts(T))

(* The invocations in flight and the initial state *)

Goroutines == {"g1", "g2"}

\* version and prev are history: the number of store writes the fetched object
\* reflects, and the conditions the Get before this one fetched for the identity
Idle == [pc |-> "idle", req |-> ReqA, o |-> NoObject, observed |-> <<>>, calls |-> <<>>,
         version |-> 0, prev |-> <<>>]

NoAudit ==
    [changed |-> {}, fetched |-> EmptyMap, counted |-> {}, overlapped |-> FALSE,
     anomalies |-> {}, finalized |-> EmptyMap]

InitialStores ==
    {EmptyMap,
     ReqA :> [conditions |-> For(<<>>, 0), deletionTimestamp |-> NilTime]}

Init ==
    /\ kubeClient \in InitialStores
    /\ now = 0
    /\ writes = 0
    /\ c = NewController
    /\ pkg = [m \in MetricNames |-> EmptyMap]
    /\ recorder = <<>>
    /\ last = [req |-> ReqA, outcome |-> "none", o |-> NoObject, observed |-> <<>>,
               loaded |-> FALSE, now |-> 0, deletionTS |-> NilTime, result |-> NoResult]
    /\ stored = EmptyMap
    /\ recorded = EmptyMap
    /\ goroutines = [g \in Goroutines |-> Idle]
    /\ audit = NoAudit
    /\ sdk = NoSdk
    /\ built = <<>>

----------------------------------------------------------------------------
(* The other actors: the clock and the writers of the store *)

Tick ==
    /\ now < MaxTime
    /\ now' = now + 1
    /\ UNCHANGED <<built, sdk, goroutines, audit, kubeClient, writes, c, pkg, recorder, last, stored, recorded>>

\* history: the condition types whose status the write changes
StatusChanges(req, o) ==
    LET before == IF req \in DOMAIN kubeClient THEN kubeClient[req].conditions ELSE <<>>
    IN  {<<req, t>> : t \in {t \in {ConditionReady} \cup Dependents :
                                GetStatus(Get(before, t)) # GetStatus(Get(o.conditions, t))}}

Write(req, o) ==
    /\ writes < MaxWrites
    /\ kubeClient' = MapStore(kubeClient, req, o)
    /\ kubeClient' # kubeClient
    /\ writes' = writes + 1
    /\ audit' = [audit EXCEPT !.changed = @ \cup StatusChanges(req, o)]
    /\ UNCHANGED <<built, sdk, goroutines, now, c, pkg, recorder, last, stored, recorded>>

WriteConditions(req, cs) ==
    /\ req \in DOMAIN kubeClient
    /\ Write(req, [kubeClient[req] EXCEPT !.conditions = cs])

Create(req) ==
    /\ req \notin DOMAIN kubeClient
    /\ \E initialized \in BOOLEAN :
          Write(req, [conditions |-> IF initialized THEN For(<<>>, now) ELSE <<>>,
                      deletionTimestamp |-> NilTime])

ApplySetTrue(req, t) ==
    /\ req \in DOMAIN kubeClient
    /\ WriteConditions(req, SetTrue(kubeClient[req].conditions, t, now))

ApplySetTrueWithReason(req, t) ==
    /\ req \in DOMAIN kubeClient
    /\ WriteConditions(req, SetTrueWithReason(kubeClient[req].conditions, t,
                                              "reason", "message", now))

ApplySetFalse(req, t) ==
    /\ req \in DOMAIN kubeClient
    /\ WriteConditions(req, SetFalse(kubeClient[req].conditions, t,
                                     "reason", "message", now))

ApplySetUnknown(req, t) ==
    /\ req \in DOMAIN kubeClient
    /\ WriteConditions(req, SetUnknown(kubeClient[req].conditions, t, now))

ApplyClear(req, t) ==
    /\ req \in DOMAIN kubeClient
    /\ WriteConditions(req, Clear(kubeClient[req].conditions, t, now))

Delete(req) ==
    /\ req \in DOMAIN kubeClient
    /\ kubeClient[req].deletionTimestamp = NilTime
    /\ Write(req, [kubeClient[req] EXCEPT !.deletionTimestamp = now])

\* history: the number of finalized deletions of the identity so far
Finalizations(req) ==
    IF req \in DOMAIN audit.finalized THEN audit.finalized[req] ELSE 0

Finalize(req) ==
    /\ req \in DOMAIN kubeClient
    /\ writes < MaxWrites
    /\ kubeClient' = [k \in DOMAIN kubeClient \ {req} |-> kubeClient[k]]
    /\ writes' = writes + 1
    /\ audit' = [audit EXCEPT !.finalized = MapStore(@, req, Finalizations(req) + 1)]
    /\ UNCHANGED <<built, sdk, goroutines, now, c, pkg, recorder, last, stored, recorded>>

----------------------------------------------------------------------------
(* Reconcile: one action per outcome of kubeClient.Get *)

TotalSamples(histogram) ==
    BagCardinality(Samples(histogram, TerminationLabels))

Commit(s) ==
    /\ c' = s.c
    /\ pkg' = s.pkg
    /\ recorder' = s.recorder

Invocation == [c |-> c, pkg |-> pkg, recorder |-> recorder]

ReconcileFoundRequeueOnChange(req) ==
    /\ req \in DOMAIN kubeClient
    /\ Commit(reconcileFound(Invocation, req, kubeClient[req], now))
    /\ last' = [req |-> req, outcome |-> "found", o |-> kubeClient[req],
                observed |-> loadObserved(Invocation, req),
                loaded |-> Loaded(c.observedConditions, req), now |-> now,
                deletionTS |-> IF Loaded(c.terminatingObjects, req)
                               THEN c.terminatingObjects[req] ELSE NilTime,
                result |-> [RequeueAfter |-> IF kubeClient[req].conditions
                                                   # loadObserved(Invocation, req)
                                                THEN RequeueAfterSeconds ELSE 0,
                            err |-> FALSE]]
    /\ stored' = MapStore(stored, req, kubeClient[req].conditions)
    /\ recorded' = IF kubeClient[req].deletionTimestamp # NilTime
                   THEN MapStore(recorded, req, kubeClient[req].deletionTimestamp)
                   ELSE recorded
    /\ UNCHANGED <<built, sdk, goroutines, audit, kubeClient, now, writes>>

ReconcileFoundPersisting(req) ==
    /\ req \in DOMAIN kubeClient
    /\ Commit(reconcileFound(Invocation, req, kubeClient[req], now))
    /\ last' = [req |-> req, outcome |-> "found", o |-> kubeClient[req],
                observed |-> loadObserved(Invocation, req),
                loaded |-> Loaded(c.observedConditions, req), now |-> now,
                deletionTS |-> IF Loaded(c.terminatingObjects, req)
                               THEN c.terminatingObjects[req] ELSE NilTime,
                result |-> [RequeueAfter |-> RequeueAfterSeconds, err |-> FALSE]]
    /\ stored' = MapStore(stored, req, kubeClient[req].conditions)
    /\ recorded' = IF kubeClient[req].deletionTimestamp # NilTime
                   THEN MapStore(recorded, req, kubeClient[req].deletionTimestamp)
                   ELSE recorded
    /\ kubeClient' = [kubeClient EXCEPT ![req].conditions = For(@, now)]
    /\ UNCHANGED <<built, sdk, goroutines, audit, now, writes>>

ReconcileFound(req) ==
    /\ req \in DOMAIN kubeClient
    /\ Commit(reconcileFound(Invocation, req, kubeClient[req], now))
    /\ last' = [req |-> req, outcome |-> "found", o |-> kubeClient[req],
                observed |-> loadObserved(Invocation, req),
                loaded |-> Loaded(c.observedConditions, req), now |-> now,
                deletionTS |-> IF Loaded(c.terminatingObjects, req)
                               THEN c.terminatingObjects[req] ELSE NilTime,
                result |-> [RequeueAfter |-> RequeueAfterSeconds, err |-> FALSE]]
    /\ stored' = MapStore(stored, req, kubeClient[req].conditions)
    /\ recorded' = IF kubeClient[req].deletionTimestamp # NilTime
                   THEN MapStore(recorded, req, kubeClient[req].deletionTimestamp)
                   ELSE recorded
    /\ UNCHANGED <<built, sdk, goroutines, audit, kubeClient, now, writes>>

ReconcileNotFound(req) ==
    /\ req \notin DOMAIN kubeClient
    /\ Loaded(c.terminatingObjects, req) => TotalSamples(c.TerminationDuration) < MaxSamples
    /\ Commit(reconcileNotFound(Invocation, req, now))
    /\ last' = [req |-> req, outcome |-> "notfound", o |-> NoObject,
                observed |-> <<>>, loaded |-> Loaded(c.observedConditions, req), now |-> now,
                deletionTS |-> IF Loaded(c.terminatingObjects, req)
                               THEN c.terminatingObjects[req] ELSE NilTime,
                result |-> [RequeueAfter |-> 0, err |-> FALSE]]
    /\ UNCHANGED <<built, sdk, goroutines, audit, kubeClient, now, writes, stored, recorded>>

ReconcileErrorAsNotFound(req) ==
    /\ Commit(deleteObjectGauges(Invocation, req))
    /\ last' = [req |-> req, outcome |-> "error", o |-> NoObject,
                observed |-> <<>>, loaded |-> Loaded(c.observedConditions, req), now |-> now,
                deletionTS |-> IF Loaded(c.terminatingObjects, req)
                               THEN c.terminatingObjects[req] ELSE NilTime,
                result |-> [RequeueAfter |-> 0, err |-> TRUE]]
    /\ UNCHANGED <<built, sdk, goroutines, audit, kubeClient, now, writes, stored, recorded>>

ReconcileError(req) ==
    /\ last' = [req |-> req, outcome |-> "error", o |-> NoObject,
                observed |-> <<>>, loaded |-> Loaded(c.observedConditions, req), now |-> now,
                deletionTS |-> IF Loaded(c.terminatingObjects, req)
                               THEN c.terminatingObjects[req] ELSE NilTime,
                result |-> [RequeueAfter |-> 0, err |-> TRUE]]
    /\ UNCHANGED <<built, sdk, goroutines, audit, kubeClient, now, writes, c, pkg, recorder, stored, recorded>>

Reconcile(req) ==
    \/ ReconcileFound(req)
    \/ ReconcileNotFound(req)
    \/ ReconcileError(req)

Next ==
    \/ Tick
    \/ \E req \in ActiveRequests :
          \/ Create(req)
          \/ Delete(req)
          \/ Finalize(req)
          \/ Reconcile(req)
          \/ \E t \in Dependents :
                \/ ApplySetTrue(req, t)
                \/ ApplySetTrueWithReason(req, t)
                \/ ApplySetFalse(req, t)
                \/ ApplySetUnknown(req, t)
                \/ ApplyClear(req, t)

Spec == Init /\ [][Next]_vars

----------------------------------------------------------------------------
(* Reconcile, step by step.  Several invocations run at once, one per      *)
(* goroutine; a step is one access to shared state: the Get, the Load and  *)
(* the Store of the observed-conditions cache, and then every call the     *)
(* invocation makes on a metric family, on the recorder or on the          *)
(* terminating-objects map, in the order of the code.  A fan-out helper    *)
(* is two steps, the write to the current family and then the write to     *)
(* the deprecated one, the value having been computed before the first.    *)
(* A Get that fails with another error returns at once and changes         *)
(* nothing, so it is not a step.                                           *)

MetricCall(op, metric, value, labels) ==
    [op |-> op, fam |-> "current", metric |-> metric, value |-> value, labels |-> labels]

LocalCall(op, value) ==
    [op |-> op, fam |-> "", metric |-> "", value |-> value, labels |-> <<>>]

notFoundCallsSparingCount(req) ==
    <<MetricCall("deletePartialMatch", "ConditionCurrentStatusSeconds", 0, ObjectLabels(req)),
      MetricCall("deletePartialMatch", "TerminationCurrentTimeSeconds", 0, ObjectLabels(req)),
      LocalCall("loadDeletionTS", 0)>>

notFoundCalls(req) ==
    <<MetricCall("deletePartialMatch", "ConditionCount", 0, ObjectLabels(req)),
      MetricCall("deletePartialMatch", "ConditionCurrentStatusSeconds", 0, ObjectLabels(req)),
      MetricCall("deletePartialMatch", "TerminationCurrentTimeSeconds", 0, ObjectLabels(req)),
      LocalCall("loadDeletionTS", 0)>>

RECURSIVE gaugeCalls(_, _)
gaugeCalls(req, conditions) ==
    IF conditions = <<>> THEN <<>>
    ELSE LET condition == Head(conditions)
         IN  <<MetricCall("set", "ConditionCount", 1, ConditionLabels(req, condition)),
               MetricCall("setSince", "ConditionCurrentStatusSeconds",
                          condition.LastTransitionTime, ConditionLabels(req, condition))>>
             \o gaugeCalls(req, Tail(conditions))

terminationCalls(req, o) ==
    IF o.deletionTimestamp # NilTime
    THEN <<MetricCall("setSince", "TerminationCurrentTimeSeconds",
                      o.deletionTimestamp, ObjectLabels(req)),
           LocalCall("storeDeletionTS", o.deletionTimestamp)>>
    ELSE <<>>

RECURSIVE retireCalls(_, _, _)
retireCalls(req, observedList, currentConditions) ==
    IF observedList = <<>> THEN <<>>
    ELSE LET observedCondition == Head(observedList)
             currentCondition == Get(currentConditions, observedCondition.Type)
         IN  (IF isStale(observedCondition, currentCondition)
              THEN <<MetricCall("delete", "ConditionCount", 0,
                                ConditionLabels(req, observedCondition)),
                     MetricCall("delete", "ConditionCurrentStatusSeconds", 0,
                                ConditionLabels(req, observedCondition))>>
              ELSE <<>>)
             \o retireCalls(req, Tail(observedList), currentConditions)

RECURSIVE transitionCalls(_, _, _)
transitionCalls(req, currentList, observedConditions) ==
    IF currentList = <<>> THEN <<>>
    ELSE LET condition == Head(currentList)
             observedCondition == Get(observedConditions, condition.Type)
         IN  (IF ~hasTransitioned(observedCondition, condition) THEN <<>>
              ELSE <<MetricCall("inc", "ConditionTransitionsTotal", 0,
                                TransitionLabels(condition))>>
                   \o (IF observedCondition = NilCondition THEN <<>>
                       ELSE <<MetricCall("observe", "ConditionDuration",
                                         condition.LastTransitionTime
                                             - observedCondition.LastTransitionTime,
                                         DurationLabels(observedCondition)),
                              LocalCall("event",
                                        transitionEvent(req, observedCondition, condition))>>))
             \o transitionCalls(req, Tail(currentList), observedConditions)

foundCalls(req, o, observedConditions) ==
    gaugeCalls(req, GetConditions(o))
    \o terminationCalls(req, o)
    \o retireCalls(req, List(observedConditions), StatusConditions(o))
    \o transitionCalls(req, List(StatusConditions(o)), observedConditions)

applyCall(family, call, labels) ==
    CASE call.op = "set" -> GaugeSet(family, call.value, labels)
      [] call.op = "delete" -> GaugeDelete(family, labels)
      [] call.op = "deletePartialMatch" -> GaugeDeletePartialMatch(family, labels)
      [] call.op = "inc" -> CounterInc(family, labels)
      [] call.op = "observe" -> HistogramObserve(family, call.value, labels)

\* the call with its value computed, as handed to the deprecated family
Evaluated(call, t) ==
    [call EXCEPT !.op = IF @ = "setSince" THEN "set" ELSE @,
                 !.value = IF call.op = "setSince" THEN t - @ ELSE @,
                 !.fam = "deprecated"]

Continue(self, calls) ==
    IF calls = <<>> THEN Idle ELSE [self EXCEPT !.pc = "calls", !.calls = calls]

\* all the calls left to an invocation, made without another goroutine in between
RECURSIVE runCalls(_, _, _, _)
runCalls(s, req, calls, t) ==
    IF calls = <<>> THEN s
    ELSE LET call == Head(calls)
             rest == Tail(calls)
         IN  CASE call.op = "event" ->
                    runCalls([s EXCEPT !.recorder = Append(@, call.value)], req, rest, t)
               [] call.op = "storeDeletionTS" ->
                    runCalls([s EXCEPT !.c.terminatingObjects = MapStore(@, req, call.value)],
                             req, rest, t)
               [] call.op = "loadDeletionTS" ->
                    runCalls(s, req,
                             IF Loaded(s.c.terminatingObjects, req)
                             THEN <<MetricCall("observe", "TerminationDuration",
                                               t - s.c.terminatingObjects[req],
                                               TerminationLabels)>> \o rest
                             ELSE rest, t)
               [] OTHER ->
                    runCalls([s EXCEPT
                                 !.c[call.metric] =
                                     applyCall(@, Evaluated(call, t), call.labels),
                                 !.pkg[call.metric] =
                                     applyCall(@, Evaluated(call, t), WithKind(call.labels))],
                             req, rest, t)

\* the conditions the latest Get of the identity fetched
Fetched(req) ==
    IF req \in DOMAIN audit.fetched THEN audit.fetched[req] ELSE <<>>

\* the condition types the invocation is about to count a transition of
Counting(self) ==
    {self.o.conditions[i].Type : i \in
        {j \in DOMAIN self.o.conditions :
            hasTransitioned(Get(self.observed, self.o.conditions[j].Type),
                            self.o.conditions[j])}}

\* another invocation that fetched the same version of the object counted the
\* same transition
DoubleCounts(self) ==
    \E t \in Counting(self) : <<self.req, self.version, t>> \in audit.counted

\* the status differs from the one the Get before fetched, and is not counted
Misses(self) ==
    \E i \in DOMAIN self.o.conditions :
        LET condition == self.o.conditions[i]
        IN  /\ GetStatus(Get(self.prev, condition.Type)) # GetStatus(condition)
            /\ condition.Type \notin Counting(self)

GetObject(g, req) ==
    /\ goroutines[g].pc = "idle"
    /\ req \notin DOMAIN kubeClient /\ Loaded(c.terminatingObjects, req)
          => TotalSamples(c.TerminationDuration) < MaxSamples
    /\ goroutines' = [goroutines EXCEPT ![g] =
          IF req \in DOMAIN kubeClient
          THEN [pc |-> "load", req |-> req, o |-> kubeClient[req],
                observed |-> <<>>, calls |-> <<>>,
                version |-> writes, prev |-> Fetched(req)]
          ELSE [pc |-> "calls", req |-> req, o |-> NoObject,
                observed |-> <<>>, calls |-> notFoundCalls(req),
                version |-> writes, prev |-> Fetched(req)]]
    /\ audit' = [audit EXCEPT
          !.fetched = MapStore(@, req, IF req \in DOMAIN kubeClient
                                       THEN kubeClient[req].conditions ELSE <<>>),
          !.overlapped = @ \/ \E h \in Goroutines \ {g} :
                                goroutines[h].pc # "idle" /\ goroutines[h].req = req]
    /\ UNCHANGED <<built, sdk, kubeClient, now, writes, c, pkg, recorder, last, stored, recorded>>

LoadObserved(g) ==
    /\ goroutines[g].pc = "load"
    /\ goroutines' = [goroutines EXCEPT ![g].pc = "store",
                                        ![g].observed =
                                            loadObserved(Invocation, goroutines[g].req)]
    /\ UNCHANGED <<built, sdk, kubeClient, now, writes, c, pkg, recorder, last, stored, recorded, audit>>

StoreObservedAfterGauges(g) ==
    LET self == goroutines[g]
        s == runCalls(Invocation, self.req, gaugeCalls(self.req, GetConditions(self.o)), now)
    IN  /\ self.pc = "store"
        /\ c' = storeObserved(s, self.req, StatusConditions(self.o)).c
        /\ pkg' = s.pkg
        /\ stored' = MapStore(stored, self.req, self.o.conditions)
        /\ goroutines' = [goroutines EXCEPT ![g] =
              Continue(self, terminationCalls(self.req, self.o)
                             \o retireCalls(self.req, List(self.observed),
                                            StatusConditions(self.o))
                             \o transitionCalls(self.req, List(StatusConditions(self.o)),
                                                self.observed))]
        /\ audit' = [audit EXCEPT
              !.counted = @ \cup {<<self.req, self.version, t>> : t \in Counting(self)},
              !.anomalies = @ \cup (IF DoubleCounts(self) THEN {"double-counted"} ELSE {})
                              \cup (IF Misses(self) THEN {"missed"} ELSE {})]
        /\ UNCHANGED <<built, sdk, kubeClient, now, writes, recorder, last, recorded>>

StoreObserved(g) ==
    LET self == goroutines[g]
    IN  /\ self.pc = "store"
        /\ c' = storeObserved(Invocation, self.req, StatusConditions(self.o)).c
        /\ stored' = MapStore(stored, self.req, self.o.conditions)
        /\ goroutines' = [goroutines EXCEPT ![g] =
              Continue(self, foundCalls(self.req, self.o, self.observed))]
        /\ audit' = [audit EXCEPT
              !.counted = @ \cup {<<self.req, self.version, t>> : t \in Counting(self)},
              !.anomalies = @ \cup (IF DoubleCounts(self) THEN {"double-counted"} ELSE {})
                              \cup (IF Misses(self) THEN {"missed"} ELSE {})]
        /\ UNCHANGED <<built, sdk, kubeClient, now, writes, pkg, recorder, last, recorded>>

Call(g) ==
    LET self == goroutines[g]
        call == Head(self.calls)
        rest == Tail(self.calls)
    IN  /\ self.pc = "calls"
        /\ CASE call.op = "event" ->
                  /\ recorder' = Append(recorder, call.value)
                  /\ goroutines' = [goroutines EXCEPT ![g] = Continue(self, rest)]
                  /\ UNCHANGED <<c, pkg, recorded>>
             [] call.op = "storeDeletionTS" ->
                  /\ c' = [c EXCEPT !.terminatingObjects = MapStore(@, self.req, call.value)]
                  /\ recorded' = MapStore(recorded, self.req, call.value)
                  /\ goroutines' = [goroutines EXCEPT ![g] = Continue(self, rest)]
                  /\ UNCHANGED <<pkg, recorder>>
             [] call.op = "loadDeletionTS" ->
                  /\ goroutines' = [goroutines EXCEPT ![g] = Continue(self,
                        IF Loaded(c.terminatingObjects, self.req)
                        THEN <<MetricCall("observe", "TerminationDuration",
                                          now - c.terminatingObjects[self.req],
                                          TerminationLabels)>> \o rest
                        ELSE rest)]
                  /\ UNCHANGED <<c, pkg, recorder, recorded>>
             [] call.fam = "current" ->
                  /\ c' = [c EXCEPT ![call.metric] =
                              applyCall(@, Evaluated(call, now), call.labels)]
                  /\ goroutines' = [goroutines EXCEPT ![g].calls =
                                        <<Evaluated(call, now)>> \o rest]
                  /\ UNCHANGED <<pkg, recorder, recorded>>
             [] call.fam = "deprecated" ->
                  /\ pkg' = [pkg EXCEPT ![call.metric] =
                                applyCall(@, call, WithKind(call.labels))]
                  /\ goroutines' = [goroutines EXCEPT ![g] = Continue(self, rest)]
                  /\ UNCHANGED <<c, recorder, recorded>>
        /\ UNCHANGED <<built, sdk, kubeClient, now, writes, last, stored, audit>>

Calls(g) ==
    LET self == goroutines[g]
    IN  /\ self.pc = "calls"
        /\ Commit(runCalls(Invocation, self.req, self.calls, now))
        /\ recorded' = IF \E i \in DOMAIN self.calls : self.calls[i].op = "storeDeletionTS"
                       THEN MapStore(recorded, self.req, self.o.deletionTimestamp)
                       ELSE recorded
        /\ goroutines' = [goroutines EXCEPT ![g] = Idle]
        /\ UNCHANGED <<built, sdk, kubeClient, now, writes, last, stored, audit>>

Untouched == [conditions |-> For(<<>>, 0), deletionTimestamp |-> NilTime]

InitWith(stores) ==
    /\ kubeClient \in stores
    /\ now = 0
    /\ writes = 0
    /\ c = NewController
    /\ pkg = [m \in MetricNames |-> EmptyMap]
    /\ recorder = <<>>
    /\ last = [req |-> ReqA, outcome |-> "none", o |-> NoObject, observed |-> <<>>,
               loaded |-> FALSE, now |-> 0, deletionTS |-> NilTime, result |-> NoResult]
    /\ stored = EmptyMap
    /\ recorded = EmptyMap
    /\ goroutines = [g \in Goroutines |-> Idle]
    /\ audit = NoAudit
    /\ sdk = NoSdk
    /\ built = <<>>

(* Two goroutines reconcile one object while the clock runs and the object *)
(* may be deleted.  Every write to a metric family is a step of its own.   *)

ConcurrentStores == {ReqA :> Untouched}

NextConcurrent ==
    \/ Tick
    \/ Delete(ReqA)
    \/ \E g \in Goroutines :
          \/ GetObject(g, ReqA)
          \/ LoadObserved(g)
          \/ StoreObserved(g)
          \/ Call(g)

SpecConcurrent == InitWith(ConcurrentStores) /\ [][NextConcurrent]_vars

(* Two goroutines reconcile one object while its conditions change.  The   *)
(* clock stands still: no label, counter or cache entry depends on it.     *)
(* The calls of an invocation are made in one step: they are writes to     *)
(* sinks the controller never reads, so how they interleave decides        *)
(* nothing an invocation does afterwards.                                  *)

NextOverlapping ==
    \/ ApplySetTrue(ReqA, ConditionTypeFoo)
    \/ ApplySetUnknown(ReqA, ConditionTypeFoo)
    \/ \E g \in Goroutines :
          \/ GetObject(g, ReqA)
          \/ LoadObserved(g)
          \/ StoreObserved(g)
          \/ Calls(g)

SpecOverlapping == InitWith({ReqA :> Untouched}) /\ [][NextOverlapping]_vars

(* Scheduling: a goroutine that has started an invocation keeps running    *)
(* until it returns, and the identity keeps being handed to Reconcile (the *)
(* result of a found-reconciliation asks for a revisit).                   *)
FairOverlapping ==
    /\ SpecOverlapping
    /\ \A g \in Goroutines : WF_vars(LoadObserved(g) \/ StoreObserved(g) \/ Calls(g))
    /\ WF_vars(\E g \in Goroutines : GetObject(g, ReqA))

(* The same with two objects, the second one never written.                *)

IdentityStores ==
    {(ReqA :> Untouched)
     @@ (ReqB :> [Untouched EXCEPT
                     !.conditions = SetFalse(@, ConditionTypeFoo, "reason", "message", 0)])}

NextIdentities ==
    \/ ApplySetTrue(ReqA, ConditionTypeFoo)
    \/ \E g \in Goroutines :
          \/ \E req \in Requests : GetObject(g, req)
          \/ LoadObserved(g)
          \/ StoreObserved(g)
          \/ Calls(g)

SpecIdentities == InitWith(IdentityStores) /\ [][NextIdentities]_vars

(* One object again, with the clock running: the values of the samples and *)
(* of the gauges.                                                          *)

NextClocked ==
    \/ Tick
    \/ ApplySetTrue(ReqA, ConditionTypeFoo)
    \/ \E g \in Goroutines :
          \/ GetObject(g, ReqA)
          \/ LoadObserved(g)
          \/ StoreObserved(g)
          \/ Calls(g)

SpecClocked == InitWith({ReqA :> Untouched}) /\ [][NextClocked]_vars

----------------------------------------------------------------------------

(* The condition set of one object with two declared conditions, written   *)
(* by its owner with every mutator and reconciled sequentially.  The       *)
(* object starts as the test object does: initialized, every declared      *)
(* condition and Ready being Unknown.                                      *)

ConditionTypeBar == "Bar"

DeclaredTypes == {ConditionTypeFoo, ConditionTypeBar}

Declared ==
    [conditions |-> SetUnknown(SetUnknown(For(<<>>, 0), ConditionTypeFoo, 0),
                               ConditionTypeBar, 0),
     deletionTimestamp |-> NilTime]

\* the sets the owner can have made of it with one mutator before the start
Mutations(cs, tm) ==
    UNION {{SetTrue(cs, t, tm), SetTrueWithReason(cs, t, "reason", "message", tm),
            SetFalse(cs, t, "reason", "message", tm), SetUnknown(cs, t, tm),
            Clear(cs, t, tm)} : t \in DeclaredTypes}

ConditionStores ==
    {ReqA :> [Declared EXCEPT !.conditions = cs] :
        cs \in {Declared.conditions} \cup Mutations(Declared.conditions, 0)}

NextConditions ==
    \/ ReconcileFound(ReqA)
    \/ \E t \in DeclaredTypes :
          \/ ApplySetTrue(ReqA, t)
          \/ ApplySetTrueWithReason(ReqA, t)
          \/ ApplySetFalse(ReqA, t)
          \/ ApplySetUnknown(ReqA, t)
          \/ ApplyClear(ReqA, t)

SpecConditions == InitWith(ConditionStores) /\ [][NextConditions]_vars

(* The same writers with the clock running and no reconciliation: the      *)
(* timestamps the mutators leave on the conditions.                        *)

NextTimestamps ==
    \/ Tick
    \/ \E t \in DeclaredTypes :
          \/ ApplySetTrue(ReqA, t)
          \/ ApplySetTrueWithReason(ReqA, t)
          \/ ApplySetFalse(ReqA, t)
          \/ ApplySetUnknown(ReqA, t)
          \/ ApplyClear(ReqA, t)

SpecTimestamps == InitWith(ConditionStores) /\ [][NextTimestamps]_vars

----------------------------------------------------------------------------

(* The generic object controller: the object is an unstructured one whose  *)
(* conditions the adapter decodes from a field of the stored document.     *)
(* The object starts with the two conditions the test gives it; a writer   *)
(* may drop the field or give it another shape, and the adapter then       *)
(* decodes the empty list.                                                 *)

GenericObject ==
    [conditions |-> <<Condition(ConditionTypeFoo, "Unknown", "", "", 0),
                      Condition(ConditionTypeBar, "Unknown", "", "", 0)>>,
     deletionTimestamp |-> NilTime]

Malform(req) ==
    /\ req \in DOMAIN kubeClient
    /\ WriteConditions(req, <<>>)

NextGeneric ==
    \/ Tick
    \/ Malform(ReqA)
    \/ Delete(ReqA)
    \/ ApplySetTrue(ReqA, ConditionTypeFoo)
    \/ ApplySetFalse(ReqA, ConditionTypeFoo)
    \/ ReconcileFound(ReqA)

SpecGeneric == InitWith({ReqA :> GenericObject}) /\ [][NextGeneric]_vars

----------------------------------------------------------------------------

(* An identity that is used twice: the object has been written and marked  *)
(* for deletion before the first reconciliation, is finalized, and an      *)
(* object of the same namespace and name is created again.                 *)

Terminating ==
    [conditions |-> SetTrue(For(<<>>, 0), ConditionTypeFoo, 0), deletionTimestamp |-> 0]

NextRecreated ==
    \/ Tick
    \/ Finalize(ReqA)
    \/ Create(ReqA)
    \/ ReconcileFound(ReqA)
    \/ ReconcileNotFound(ReqA)

SpecRecreated == InitWith({ReqA :> Terminating}) /\ [][NextRecreated]_vars

----------------------------------------------------------------------------

(* Two goroutines reconcile one object that is removed from the store at   *)
(* some moment, with or without having been marked for deletion before.    *)
(* Every write to a metric family is a step of its own.                    *)

DeletedStores == {ReqA :> Untouched, ReqA :> [Untouched EXCEPT !.deletionTimestamp = 0]}

NextDeleted ==
    \/ Finalize(ReqA)
    \/ \E g \in Goroutines :
          \/ GetObject(g, ReqA)
          \/ LoadObserved(g)
          \/ StoreObserved(g)
          \/ Call(g)

SpecDeleted == InitWith(DeletedStores) /\ [][NextDeleted]_vars

SeriesRemain(req) ==
    \E m \in {"ConditionCount", "ConditionCurrentStatusSeconds",
              "TerminationCurrentTimeSeconds"} :
        \/ \E l \in DOMAIN c[m] : PartialMatch(l, ObjectLabels(req))
        \/ \E l \in DOMAIN pkg[m] : PartialMatch(l, ObjectLabels(req))

\* the revisit a found-reconciliation asked for: when every invocation has
\* returned and series of the identity exist, the last of the invocations that
\* set them returned a revisit delay and no Get has followed it yet
Revisit(req) ==
    /\ \A g \in Goroutines : goroutines[g].pc = "idle"
    /\ SeriesRemain(req)
    /\ \E g \in Goroutines : GetObject(g, req)

(* Scheduling: a goroutine that has started an invocation runs until it    *)
(* returns, and a returned revisit delay leads to a further reconciliation.*)
FairDeleted ==
    /\ SpecDeleted
    /\ \A g \in Goroutines : WF_vars(LoadObserved(g) \/ StoreObserved(g) \/ Call(g))
    /\ WF_vars(Revisit(ReqA))

----------------------------------------------------------------------------

(* One object whose Foo condition is True from the start and is then set   *)
(* again and again by its owner while the clock runs, reconciled           *)
(* sequentially.  A write is a store mutation only when it changes the     *)
(* object, and each of these three mutators changes it only by changing    *)
(* the status of Foo, so the write count is the number of status changes   *)
(* of Foo, and a LastTransitionTime later than the observed one tells that *)
(* the status changed after the observation.                               *)

Settled ==
    [conditions |-> SetTrue(For(<<>>, 0), ConditionTypeFoo, 0),
     deletionTimestamp |-> NilTime]

NextLossy ==
    \/ Tick
    \/ ApplySetTrue(ReqA, ConditionTypeFoo)
    \/ ApplySetFalse(ReqA, ConditionTypeFoo)
    \/ ApplySetUnknown(ReqA, ConditionTypeFoo)
    \/ ReconcileFound(ReqA)

SpecLossy == InitWith({ReqA :> Settled}) /\ [][NextLossy]_vars

----------------------------------------------------------------------------

(* Two objects in one namespace, each marked for deletion, removed and     *)
(* written by its owner, and each reconciled sequentially, in any order.   *)
(* The clock stands still: which series and which map entries an           *)
(* invocation touches does not depend on it.                               *)

NextNeighbours ==
    \E req \in Requests :
        \/ ApplySetTrue(req, ConditionTypeFoo)
        \/ ApplySetFalse(req, ConditionTypeFoo)
        \/ Delete(req)
        \/ Finalize(req)
        \/ ReconcileFound(req)
        \/ ReconcileNotFound(req)

SpecNeighbours == InitWith(IdentityStores) /\ [][NextNeighbours]_vars

----------------------------------------------------------------------------

(* AWS SDK v1: one session with the handlers installed sends requests one  *)
(* after another.  Send runs the Complete handlers once when it returns,   *)
(* also when it returns before the first attempt (a request that was built *)
(* with an error or cannot be signed; the response is then the empty one,  *)
(* status code 0), and runs the CompleteAttempt handlers once at the end   *)
(* of every attempt; a failed attempt may be retried.                      *)

NewRequest(service, operation) ==
    /\ sdk.r.phase = "none"
    /\ sdk.completed.requests < MaxRequests
    /\ sdk' = [sdk EXCEPT !.r = [phase |-> "built", ServiceID |-> service,
                                 Operation |-> operation, Time |-> now, AttemptTime |-> 0,
                                 RetryCount |-> 0, StatusCode |-> 0]]
    /\ UNCHANGED <<built, now, kubeClient, writes, c, pkg, recorder, last, stored, recorded,
                   goroutines, audit>>

SendUnattempted ==
    /\ sdk.r.phase = "built"
    /\ sdk.r.RetryCount = 0
    /\ sdk' = [sdk EXCEPT
          !.registry = Run(sdk.Handlers.Complete, @, sdk.r, now),
          !.completed.requests = @ + 1,
          !.completed.unattempted = @ + 1,
          !.r = NoRequest]
    /\ UNCHANGED <<built, now, kubeClient, writes, c, pkg, recorder, last, stored, recorded,
                   goroutines, audit>>

SendAttempt ==
    /\ sdk.r.phase = "built"
    /\ sdk' = [sdk EXCEPT !.r.phase = "sending", !.r.AttemptTime = now]
    /\ UNCHANGED <<built, now, kubeClient, writes, c, pkg, recorder, last, stored, recorded,
                   goroutines, audit>>

CompleteAttempt(statusCode) ==
    /\ sdk.r.phase = "sending"
    /\ LET r == [sdk.r EXCEPT !.StatusCode = statusCode]
       IN  sdk' = [sdk EXCEPT
               !.registry = Run(sdk.Handlers.CompleteAttempt, @, r, now),
               !.completed.attempts = @ + 1,
               !.r = [r EXCEPT !.phase = "attempted"]]
    /\ UNCHANGED <<built, now, kubeClient, writes, c, pkg, recorder, last, stored, recorded,
                   goroutines, audit>>

Retry ==
    /\ sdk.r.phase = "attempted"
    /\ sdk.r.StatusCode >= 500
    /\ sdk.r.RetryCount + 1 < MaxAttempts
    /\ sdk' = [sdk EXCEPT !.r.phase = "built", !.r.RetryCount = @ + 1]
    /\ UNCHANGED <<built, now, kubeClient, writes, c, pkg, recorder, last, stored, recorded,
                   goroutines, audit>>

Complete ==
    /\ sdk.r.phase = "attempted"
    /\ sdk' = [sdk EXCEPT
          !.registry = Run(sdk.Handlers.Complete, @, sdk.r, now),
          !.completed.requests = @ + 1,
          !.r = NoRequest]
    /\ UNCHANGED <<built, now, kubeClient, writes, c, pkg, recorder, last, stored, recorded,
                   goroutines, audit>>

NextAwsV1 ==
    \/ Tick
    \/ \E service \in {"EC2"}, operation \in {"DescribeInstances"} :
          NewRequest(service, operation)
    \/ SendUnattempted
    \/ SendAttempt
    \/ \E statusCode \in StatusCodes : CompleteAttempt(statusCode)
    \/ Retry
    \/ Complete

SpecAwsV1 == InitWith({EmptyMap}) /\ [][NextAwsV1]_vars

(* AWS SDK v2: the metric middleware hands the publisher the data of one   *)
(* finished request at a time: the retry count, the duration of the call,  *)
(* the attempts with their own status codes, and the status code of the    *)
(* final response, which is that of the last attempt when there is one.    *)

MetricData ==
    {data \in
        [ServiceID : {"EC2"}, OperationName : {"DescribeInstances"},
         StatusCode : StatusCodes,
         RetryCount : 0..(MaxAttempts - 1), APICallDuration : {1500},
         Attempts : UNION {[1..n -> [StatusCode : StatusCodes, ServiceCallDuration : {1500}]] :
                              n \in 0..MaxAttempts}] :
        data.Attempts # <<>> =>
            data.StatusCode = data.Attempts[Len(data.Attempts)].StatusCode}

PostRequestMetrics(data) ==
    /\ sdk.completed.requests < MaxRequests
    /\ LET result == postRequestMetrics(sdk.registry, data)
       IN  sdk' = [sdk EXCEPT
               !.registry = result.registry,
               !.completed.requests = @ + 1,
               !.posted = data,
               !.returned = result.err]
    /\ UNCHANGED <<built, now, kubeClient, writes, c, pkg, recorder, last, stored, recorded,
                   goroutines, audit>>

PostStreamMetrics(data) ==
    /\ sdk.completed.requests < MaxRequests
    /\ LET result == postStreamMetrics(sdk.registry, data)
       IN  sdk' = [sdk EXCEPT
               !.registry = result.registry,
               !.completed.requests = @ + 1,
               !.posted = data,
               !.returned = result.err]
    /\ UNCHANGED <<built, now, kubeClient, writes, c, pkg, recorder, last, stored, recorded,
                   goroutines, audit>>

NextAwsV2 ==
    \E data \in MetricData :
        \/ PostRequestMetrics(data)
        \/ PostStreamMetrics(data)

SpecAwsV2 == InitWith({EmptyMap}) /\ [][NextAwsV2]_vars

----------------------------------------------------------------------------

(* Construction: controllers are constructed one after another, typed ones *)
(* with any number of options up to MaxOpts and generic ones.  A call that *)
(* panics returns no controller.                                           *)

ControllerOpts ==
    UNION {[1..n -> [GVK : {GVK(T) : T \in ObjectTypes}]] : n \in 0..MaxOpts}

NewControllerCall(T, opts) ==
    /\ Len(built) < MaxControllers
    /\ built' = Append(built, [call |-> "NewController", T |-> T, opts |-> opts,
                               returned |-> newController(T, opts)])
    /\ UNCHANGED <<now, sdk, kubeClient, writes, c, pkg, recorder, last, stored, recorded,
                   goroutines, audit>>

NewGenericObjectController(T) ==
    /\ Len(built) < MaxControllers
    /\ built' = Append(built, [call |-> "NewGenericObjectController", T |-> T,
                               opts |-> genericOpts(T),
                               returned |-> newGenericObjectController(T)])
    /\ UNCHANGED <<now, sdk, kubeClient, writes, c, pkg, recorder, last, stored, recorded,
                   goroutines, audit>>

NextConstruct ==
    \/ \E T \in ObjectTypes \cup {UnstructuredAdapter}, opts \in ControllerOpts :
          NewControllerCall(T, opts)
    \/ \E T \in ObjectTypes : NewGenericObjectController(T)

SpecConstruct == InitWith({EmptyMap}) /\ [][NextConstruct]_vars

----------------------------------------------------------------------------

(* Vocabulary of the properties.  Unprimed variables are the state before  *)
(* a step and primed ones the state after it.                              *)

Has(cs, t) == \E i \in DOMAIN cs : cs[i].Type = t

StatusIn(cs, t) ==
    IF Has(cs, t) THEN cs[CHOOSE i \in DOMAIN cs : cs[i].Type = t].Status ELSE "Unknown"

Elems(cs) == {cs[i] : i \in DOMAIN cs}

Previous(req) == IF req \in DOMAIN stored THEN stored[req] ELSE <<>>

CounterDelta(metric, labels) ==
    CounterValue(c'[metric], labels) - CounterValue(c[metric], labels)

PkgCounterDelta(metric, labels) ==
    CounterValue(pkg'[metric], WithKind(labels)) - CounterValue(pkg[metric], WithKind(labels))

SampleDelta(metric, labels) ==
    BagCardinality(Samples(c'[metric], labels)) - BagCardinality(Samples(c[metric], labels))

PkgSampleDelta(metric, labels) ==
    BagCardinality(Samples(pkg'[metric], WithKind(labels)))
        - BagCardinality(Samples(pkg[metric], WithKind(labels)))

SameFamilies(metric) ==
    DOMAIN pkg'[metric] = {WithKind(l) : l \in DOMAIN c'[metric]}

Emitted(req, t) ==
    Cardinality({i \in (Len(recorder) + 1)..Len(recorder') :
                    /\ recorder'[i].object = req
                    /\ recorder'[i].eventtype = EventTypeNormal
                    /\ recorder'[i].reason = t})

EventsKept == SubSeq(recorder', 1, Len(recorder)) = recorder

TypeUntouched(metric, t) ==
    /\ \A l \in DOMAIN c'[metric] :
          l.type = t => l \in DOMAIN c[metric] /\ c'[metric][l] = c[metric][l]
    /\ \A l \in DOMAIN pkg'[metric] :
          l.type = t => l \in DOMAIN pkg[metric] /\ pkg'[metric][l] = pkg[metric][l]

NoEventOfType(t) ==
    /\ EventsKept
    /\ \A i \in (Len(recorder) + 1)..Len(recorder') : recorder'[i].reason # t

ExpectedIncrements(req, labels) ==
    Cardinality({i \in DOMAIN kubeClient[req].conditions :
        /\ TransitionLabels(kubeClient[req].conditions[i]) = labels
        /\ kubeClient[req].conditions[i].Status
              # StatusIn(Previous(req), kubeClient[req].conditions[i].Type)})

SeriesOf(req, metric) ==
    {l \in DOMAIN c[metric] : l.namespace = req.Namespace /\ l.name = req.Name}
    \cup {l \in DOMAIN pkg[metric] : l.namespace = req.Namespace /\ l.name = req.Name}

----------------------------------------------------------------------------
(* C1: with reconciliations of one identity running one after another, a  *)
(* reconciliation that finds the object increments                         *)
(* condition-transitions-total exactly once, under the current type,       *)
(* status and reason, for every fetched condition whose status differs     *)
(* from that of the same-typed condition fetched by the previous           *)
(* found-reconciliation of the identity (a missing one counting as         *)
(* Unknown), and increments the counter for nothing else.                  *)
C1_TransitionsCountedExactly ==
    [][\A req \in Requests : ReconcileFound(req) =>
        /\ \A l \in DOMAIN c.ConditionTransitionsTotal
                    \cup DOMAIN c'.ConditionTransitionsTotal
                    \cup {TransitionLabels(x) : x \in Elems(kubeClient[req].conditions)} :
              /\ CounterDelta("ConditionTransitionsTotal", l) = ExpectedIncrements(req, l)
              /\ PkgCounterDelta("ConditionTransitionsTotal", l) = ExpectedIncrements(req, l)
        /\ SameFamilies("ConditionTransitionsTotal")]_vars

C1_Witness ==
    /\ last.outcome = "found"
    /\ last.loaded
    /\ \E x \in Elems(last.o.conditions) : x.Status # StatusIn(last.observed, x.Type)
    /\ \E x \in Elems(last.o.conditions) : x.Status = StatusIn(last.observed, x.Type)

(* C2: in a reconciliation that finds the object, every condition whose    *)
(* status differs from that of a same-typed condition existing in the      *)
(* previous observation gets exactly one condition-transition-seconds      *)
(* sample, labelled by the previous condition's type and status, and       *)
(* exactly one Normal event on the object with the type as event reason.   *)
C2_TransitionObservedAndAnnounced ==
    [][\A req \in Requests : ReconcileFound(req) =>
        \A x \in Elems(kubeClient[req].conditions) :
            (Has(Previous(req), x.Type) /\ StatusIn(Previous(req), x.Type) # x.Status) =>
                LET labels == [group |-> Group, type |-> x.Type,
                               status |-> StatusIn(Previous(req), x.Type)]
                IN  /\ SampleDelta("ConditionDuration", labels) = 1
                    /\ PkgSampleDelta("ConditionDuration", labels) = 1
                    /\ EventsKept
                    /\ Emitted(req, x.Type) = 1]_vars

C2_Witness ==
    /\ last.outcome = "found"
    /\ \E x \in Elems(last.o.conditions) :
          Has(last.observed, x.Type) /\ StatusIn(last.observed, x.Type) # x.Status

(* C3 as stated: every first-seen condition, whatever its status, has the  *)
(* counter incremented once for its type, status and reason, with no       *)
(* histogram sample and no event for it.                                   *)
C3_FirstSeenAlwaysCounted ==
    [][\A req \in Requests : ReconcileFound(req) =>
        \A x \in Elems(kubeClient[req].conditions) :
            ~Has(Previous(req), x.Type) =>
                /\ CounterDelta("ConditionTransitionsTotal", TransitionLabels(x)) = 1
                /\ PkgCounterDelta("ConditionTransitionsTotal", TransitionLabels(x)) = 1
                /\ TypeUntouched("ConditionDuration", x.Type)
                /\ NoEventOfType(x.Type)]_vars

(* C3 amended: a first-seen condition whose status is True or False has    *)
(* the counter incremented once for its type, status and reason; a         *)
(* first-seen condition whose status is Unknown increments nothing; in     *)
(* both cases no histogram sample is observed and no event is emitted for  *)
(* it.                                                                     *)
C3_FirstSeenCountedUnlessUnknown ==
    [][\A req \in Requests : ReconcileFound(req) =>
        \A x \in Elems(kubeClient[req].conditions) :
            ~Has(Previous(req), x.Type) =>
                LET n == IF x.Status = "Unknown" THEN 0 ELSE 1
                IN  /\ CounterDelta("ConditionTransitionsTotal", TransitionLabels(x)) = n
                    /\ PkgCounterDelta("ConditionTransitionsTotal", TransitionLabels(x)) = n
                    /\ TypeUntouched("ConditionDuration", x.Type)
                    /\ NoEventOfType(x.Type)]_vars

C3_Witness ==
    /\ last.outcome = "found"
    /\ \E x \in Elems(last.o.conditions) :
          ~Has(last.observed, x.Type) /\ x.Status \in {"True", "False"}

(* C4: reconciling an identity that has no previous observation, on an     *)
(* object whose conditions are all Unknown, increments no transition       *)
(* counter, observes no transition sample and emits no event, and still    *)
(* publishes the condition-count gauge as 1 for every condition.           *)
C4_AllUnknownFirstObservation ==
    [][\A req \in Requests :
        (/\ ReconcileFound(req)
         /\ req \notin DOMAIN stored
         /\ \A x \in Elems(kubeClient[req].conditions) : x.Status = "Unknown") =>
            /\ c'.ConditionTransitionsTotal = c.ConditionTransitionsTotal
            /\ pkg'.ConditionTransitionsTotal = pkg.ConditionTransitionsTotal
            /\ c'.ConditionDuration = c.ConditionDuration
            /\ pkg'.ConditionDuration = pkg.ConditionDuration
            /\ recorder' = recorder
            /\ \A x \in Elems(kubeClient[req].conditions) :
                  /\ ConditionLabels(req, x) \in DOMAIN c'.ConditionCount
                  /\ c'.ConditionCount[ConditionLabels(req, x)] = 1
                  /\ WithKind(ConditionLabels(req, x)) \in DOMAIN pkg'.ConditionCount
                  /\ pkg'.ConditionCount[WithKind(ConditionLabels(req, x))] = 1]_vars

C4_Witness ==
    /\ last.outcome = "found"
    /\ ~last.loaded
    /\ last.o.conditions # <<>>
    /\ \A x \in Elems(last.o.conditions) : x.Status = "Unknown"
    /\ \A x \in Elems(last.o.conditions) :
          ConditionLabels(last.req, x) \in DOMAIN c.ConditionCount

(* C5: a condition whose status equals that of the same-typed condition of *)
(* the previous observation produces no counter increment, no histogram    *)
(* sample and no event, even when its reason, message or                   *)
(* LastTransitionTime differ from the previous observation.                *)
C5_SameStatusIsNoTransition ==
    [][\A req \in Requests : ReconcileFound(req) =>
        \A x \in Elems(kubeClient[req].conditions) :
            (Has(Previous(req), x.Type) /\ StatusIn(Previous(req), x.Type) = x.Status) =>
                /\ TypeUntouched("ConditionTransitionsTotal", x.Type)
                /\ TypeUntouched("ConditionDuration", x.Type)
                /\ NoEventOfType(x.Type)]_vars

C5_Witness ==
    /\ last.outcome = "found"
    /\ \E x \in Elems(last.o.conditions) : \E y \in Elems(last.observed) :
          /\ y.Type = x.Type
          /\ y.Status = x.Status
          /\ y.Reason # x.Reason
          /\ y.Message # x.Message
          /\ y.LastTransitionTime # x.LastTransitionTime

(* C6: a condition removed from the object (Clear) between two sequential  *)
(* reconciliations is no transition: the second reconciliation leaves the  *)
(* transition counters of that type as they were, observes no sample and   *)
(* emits no event for that type.                                           *)
C6_ClearIsNoTransition ==
    [][\A req \in Requests : ReconcileFound(req) =>
        \A y \in Elems(Previous(req)) :
            ~Has(kubeClient[req].conditions, y.Type) =>
                /\ TypeUntouched("ConditionTransitionsTotal", y.Type)
                /\ TypeUntouched("ConditionDuration", y.Type)
                /\ NoEventOfType(y.Type)]_vars

C6_Witness ==
    /\ last.outcome = "found"
    /\ \E y \in Elems(last.observed) :
          /\ ~Has(last.o.conditions, y.Type)
          /\ \E l \in DOMAIN c.ConditionTransitionsTotal : l.type = y.Type

(* C7: when a reconciliation that finds the object has returned, every     *)
(* condition of the fetched object has its condition-count series at 1     *)
(* and its condition-current-status-seconds series at now minus its        *)
(* LastTransitionTime, in both families: the retirement of stale series    *)
(* in the same invocation deleted none of them.                            *)
C7_CurrentGaugesPublished ==
    last.outcome = "found" =>
        \A x \in Elems(last.o.conditions) :
            LET labels == ConditionLabels(last.req, x)
            IN  /\ labels \in DOMAIN c.ConditionCount
                /\ c.ConditionCount[labels] = 1
                /\ labels \in DOMAIN c.ConditionCurrentStatusSeconds
                /\ c.ConditionCurrentStatusSeconds[labels] = last.now - x.LastTransitionTime
                /\ WithKind(labels) \in DOMAIN pkg.ConditionCount
                /\ pkg.ConditionCount[WithKind(labels)] = 1
                /\ WithKind(labels) \in DOMAIN pkg.ConditionCurrentStatusSeconds
                /\ pkg.ConditionCurrentStatusSeconds[WithKind(labels)]
                      = last.now - x.LastTransitionTime

C7_Witness ==
    /\ last.outcome = "found"
    /\ \E x \in Elems(last.o.conditions) : last.now - x.LastTransitionTime > 0
    /\ \E x \in Elems(last.o.conditions) : \E y \in Elems(last.observed) :
          y.Type = x.Type /\ y.Status = x.Status /\ y.Reason = x.Reason
    /\ \E y \in Elems(last.observed) : StatusIn(last.o.conditions, y.Type) # y.Status

(* C8: in a reconciliation that finds the object, the condition-count and  *)
(* condition-current-status-seconds series of every previously observed    *)
(* condition whose type is now absent or has another status are deleted,   *)
(* under that condition's exact type, status and reason, in both families; *)
(* the series of previous conditions still present with the same status    *)
(* are not deleted.                                                        *)
C8_StaleGaugesRetired ==
    [][\A req \in Requests : ReconcileFound(req) =>
        \A y \in Elems(Previous(req)) :
            LET labels == ConditionLabels(req, y)
                gone == \/ ~Has(kubeClient[req].conditions, y.Type)
                        \/ StatusIn(kubeClient[req].conditions, y.Type) # y.Status
            IN  \A metric \in {"ConditionCount", "ConditionCurrentStatusSeconds"} :
                    IF gone
                    THEN /\ labels \notin DOMAIN c'[metric]
                         /\ WithKind(labels) \notin DOMAIN pkg'[metric]
                    ELSE /\ labels \in DOMAIN c[metric] => labels \in DOMAIN c'[metric]
                         /\ WithKind(labels) \in DOMAIN pkg[metric]
                               => WithKind(labels) \in DOMAIN pkg'[metric]]_vars

C8_Witness ==
    /\ last.outcome = "found"
    /\ \E y \in Elems(last.observed) : ~Has(last.o.conditions, y.Type)
    /\ \E y \in Elems(last.observed) :
          /\ Has(last.o.conditions, y.Type)
          /\ StatusIn(last.o.conditions, y.Type) = y.Status
          /\ ConditionLabels(last.req, y) \in DOMAIN c.ConditionCount

(* C9: after a reconciliation whose fetch returned not-found, no           *)
(* condition-count, condition-current-status-seconds or                    *)
(* termination-current-time-seconds series of that identity remains in     *)
(* either family, whatever had been published for it before.               *)
C9_NotFoundDropsGauges ==
    last.outcome = "notfound" =>
        /\ SeriesOf(last.req, "ConditionCount") = {}
        /\ SeriesOf(last.req, "ConditionCurrentStatusSeconds") = {}
        /\ SeriesOf(last.req, "TerminationCurrentTimeSeconds") = {}

C9_Witness ==
    /\ last.outcome = "notfound"
    /\ last.req \in DOMAIN stored
    /\ Len(stored[last.req]) > 0
    /\ last.req \in DOMAIN recorded

(* C10: a not-found reconciliation observes exactly one                    *)
(* termination-duration sample in each family, equal to now minus the      *)
(* deletion timestamp an earlier reconciliation recorded for the identity, *)
(* and observes none when no deletion timestamp had been recorded.         *)
C10_TerminationDurationObserved ==
    [][\A req \in Requests : ReconcileNotFound(req) =>
        LET sample == IF req \in DOMAIN recorded
                      THEN SetToBag({now - recorded[req]}) ELSE EmptyBag
        IN  /\ Samples(c'.TerminationDuration, TerminationLabels)
                  = Samples(c.TerminationDuration, TerminationLabels) (+) sample
            /\ Samples(pkg'.TerminationDuration, WithKind(TerminationLabels))
                  = Samples(pkg.TerminationDuration, WithKind(TerminationLabels)) (+) sample
            /\ DOMAIN c'.TerminationDuration \subseteq {TerminationLabels}
            /\ DOMAIN pkg'.TerminationDuration \subseteq {WithKind(TerminationLabels)}]_vars

C10_Witness ==
    /\ last.outcome = "notfound"
    /\ last.deletionTS # NilTime
    /\ last.now - last.deletionTS > 0
    /\ BagCardinality(Samples(c.TerminationDuration, TerminationLabels)) > 0

----------------------------------------------------------------------------
(* Vocabulary of the frame properties *)

GaugeNames ==
    {"ConditionCount", "ConditionCurrentStatusSeconds", "TerminationCurrentTimeSeconds"}

\* no series of the gauge is created and none changes its value (series may go)
NoGaugeSet(before, after) ==
    \A l \in DOMAIN after : l \in DOMAIN before /\ after[l] = before[l]

MetricsUntouched ==
    /\ pkg' = pkg
    /\ \A m \in MetricNames : c'[m] = c[m]

(* C11: a reconciliation that does not find the object hands no event to   *)
(* the recorder, leaves the condition-transitions-total counters and the    *)
(* condition-transition-seconds histograms of both families as they were,   *)
(* creates no gauge series and changes the value of none, leaves the        *)
(* observed-conditions cache as it was, and returns no error and no revisit *)
(* delay.                                                                   *)
C11_NotFoundFrame ==
    [][\A req \in Requests : ReconcileNotFound(req) =>
        /\ recorder' = recorder
        /\ c'.ConditionTransitionsTotal = c.ConditionTransitionsTotal
        /\ pkg'.ConditionTransitionsTotal = pkg.ConditionTransitionsTotal
        /\ c'.ConditionDuration = c.ConditionDuration
        /\ pkg'.ConditionDuration = pkg.ConditionDuration
        /\ \A m \in GaugeNames : NoGaugeSet(c[m], c'[m]) /\ NoGaugeSet(pkg[m], pkg'[m])
        /\ c'.observedConditions = c.observedConditions
        /\ last'.result = [RequeueAfter |-> 0, err |-> FALSE]]_vars

C11_Witness ==
    /\ last.outcome = "notfound"
    /\ last.loaded
    /\ Len(c.observedConditions[last.req]) > 1
    /\ c.ConditionTransitionsTotal # EmptyMap

(* C12: Reconcile returns an error exactly when the fetch failed with an   *)
(* error other than not-found, and such a reconciliation changes no metric  *)
(* of either family, hands no event to the recorder and leaves the          *)
(* observed-conditions cache and the recorded deletion timestamps as they   *)
(* were.                                                                    *)
C12_ErrorOnlyOnFetchFailure ==
    [][\A req \in Requests :
        /\ ReconcileError(req) =>
              /\ last'.result.err
              /\ MetricsUntouched
              /\ recorder' = recorder
              /\ c'.observedConditions = c.observedConditions
              /\ c'.terminatingObjects = c.terminatingObjects
        /\ ReconcileFound(req) \/ ReconcileNotFound(req) => ~last'.result.err]_vars

C12_Witness ==
    /\ last.outcome = "error"
    /\ last.result.err
    /\ SeriesOf(last.req, "ConditionCount") # {}
    /\ SeriesOf(last.req, "TerminationCurrentTimeSeconds") # {}
    /\ Loaded(c.observedConditions, last.req)
    /\ Loaded(c.terminatingObjects, last.req)

(* C13: a reconciliation that finds the object with a deletion timestamp   *)
(* sets the termination-current-time-seconds gauge of the identity to now   *)
(* minus that timestamp in both families and records the timestamp for the  *)
(* identity; one that finds it without a deletion timestamp leaves that     *)
(* gauge and the recorded timestamps as they were.                          *)
C13_TerminationGaugeAndTimestamp ==
    [][\A req \in Requests : ReconcileFound(req) =>
        LET o == kubeClient[req]
        IN  IF o.deletionTimestamp # NilTime
            THEN /\ c'.TerminationCurrentTimeSeconds
                       = GaugeSet(c.TerminationCurrentTimeSeconds,
                                  now - o.deletionTimestamp, ObjectLabels(req))
                 /\ pkg'.TerminationCurrentTimeSeconds
                       = GaugeSet(pkg.TerminationCurrentTimeSeconds,
                                  now - o.deletionTimestamp, WithKind(ObjectLabels(req)))
                 /\ Loaded(c'.terminatingObjects, req)
                 /\ c'.terminatingObjects[req] = o.deletionTimestamp
                 /\ \A k \in DOMAIN c.terminatingObjects \ {req} :
                       /\ Loaded(c'.terminatingObjects, k)
                       /\ c'.terminatingObjects[k] = c.terminatingObjects[k]
            ELSE /\ c'.TerminationCurrentTimeSeconds = c.TerminationCurrentTimeSeconds
                 /\ pkg'.TerminationCurrentTimeSeconds = pkg.TerminationCurrentTimeSeconds
                 /\ c'.terminatingObjects = c.terminatingObjects]_vars

C13_Witness ==
    /\ last.outcome = "found"
    /\ last.o.deletionTimestamp # NilTime
    /\ last.now - last.o.deletionTimestamp > 0
    /\ Loaded(c.terminatingObjects, last.req)
    /\ ObjectLabels(last.req) \in DOMAIN c.TerminationCurrentTimeSeconds
    /\ c.TerminationCurrentTimeSeconds[ObjectLabels(last.req)] > 0

(* C14: every reconciliation that finds the object returns no error and a  *)
(* revisit delay of RequeueAfterSeconds, whether or not a condition         *)
(* changed since the previous one and whether or not the object is          *)
(* terminating.                                                             *)
C14_FoundAlwaysRequeues ==
    last.outcome = "found" =>
        last.result = [RequeueAfter |-> RequeueAfterSeconds, err |-> FALSE]

C14_Witness ==
    /\ last.outcome = "found"
    /\ last.loaded
    /\ last.observed = last.o.conditions
    /\ last.o.deletionTimestamp # NilTime
    /\ last.result.RequeueAfter = RequeueAfterSeconds

----------------------------------------------------------------------------
(* Overlapping invocations *)

Quiescent == \A g \in Goroutines : goroutines[g].pc = "idle"

StoredSnapshot(req) == IF req \in DOMAIN stored THEN stored[req] ELSE <<>>

(* C15: an invocation that found the object overwrites the cache entry of  *)
(* the identity with the fetched conditions in the step right after the    *)
(* one that read the previous entry, and no step of it up to and including *)
(* that overwrite writes a metric family, the recorder or the recorded     *)
(* deletion timestamps; a Load of the identity by any invocation returns   *)
(* the conditions of the latest overwrite.                                 *)
C15_StoreRightAfterLoad ==
    [][\A g \in Goroutines :
        LET self == goroutines[g]
        IN  /\ StoreObserved(g) =>
                  /\ Loaded(c'.observedConditions, self.req)
                  /\ c'.observedConditions[self.req] = StatusConditions(self.o)
                  /\ MetricsUntouched
                  /\ recorder' = recorder
                  /\ c'.terminatingObjects = c.terminatingObjects
            /\ self.pc = "store" /\ goroutines'[g] # self => StoreObserved(g)
            /\ self.pc \in {"idle", "load"} /\ goroutines'[g] # self =>
                  MetricsUntouched /\ recorder' = recorder
            /\ LoadObserved(g) => goroutines'[g].observed = StoredSnapshot(self.req)]_vars

C15_Witness ==
    \E g, h \in Goroutines :
        /\ g # h
        /\ goroutines[g].pc = "calls"
        /\ goroutines[h].pc = "store"
        /\ goroutines[h].req = goroutines[g].req
        /\ goroutines[h].observed = goroutines[g].o.conditions
        /\ goroutines[g].observed # goroutines[g].o.conditions
        /\ Len(goroutines[g].observed) > 0
        /\ Len(goroutines[g].o.conditions) > 1
        /\ ConditionLabels(goroutines[g].req, goroutines[g].o.conditions[2])
              \notin DOMAIN c.ConditionCount

(* C16: under every interleaving of invocations of the same and of         *)
(* different identities, a Load of the cache returns nothing or the whole   *)
(* condition list that the latest Store of that identity put there, which   *)
(* is the list an invocation of that identity fetched; and the cache holds  *)
(* at every moment, so also when all invocations have returned, exactly     *)
(* the list of the latest Store of each identity.                           *)
C16_CacheHoldsWholeSnapshots ==
    [][/\ \A g \in Goroutines :
             LoadObserved(g) =>
                 goroutines'[g].observed = StoredSnapshot(goroutines[g].req)
       /\ \A g \in Goroutines :
             StoreObserved(g) =>
                 /\ goroutines[g].o = kubeClient[goroutines[g].req]
                       \/ goroutines[g].version < writes
                 /\ stored'[goroutines[g].req] = goroutines[g].o.conditions
       /\ c'.observedConditions = stored']_vars

C16_Witness ==
    \E g \in Goroutines :
        /\ goroutines[g].pc = "store"
        /\ goroutines[g].req = ReqA
        /\ goroutines[g].observed = Untouched.conditions
        /\ goroutines[g].o.conditions # Untouched.conditions
        /\ \E t \in {ConditionReady, ConditionTypeFoo} : <<ReqA, 1, t>> \in audit.counted
        /\ ReqB \in DOMAIN c.observedConditions
        /\ c.observedConditions[ReqB] # c.observedConditions[ReqA]

FinalStatus(req, t) == GetStatus(Get(kubeClient[req].conditions, t))

CountedInto(t, status) ==
    \E l \in DOMAIN c.ConditionTransitionsTotal :
        l.type = t /\ l.status = status /\ c.ConditionTransitionsTotal[l] >= 1

CacheCaughtUp(req) ==
    /\ Loaded(c.observedConditions, req)
    /\ c.observedConditions[req] = kubeClient[req].conditions

(* C18 as stated: once the object has stopped changing (every behaviour    *)
(* of the model reaches that point, the writes being bounded), the counter *)
(* has eventually been incremented for the final status of every condition *)
(* whose status a write changed, and the cache entry eventually equals the *)
(* object's conditions.                                                    *)
C18_EveryStableChangeCounted ==
    /\ <>[](\A t \in {ConditionReady} \cup Dependents :
               <<ReqA, t>> \in audit.changed => CountedInto(t, FinalStatus(ReqA, t)))
    /\ <>[]CacheCaughtUp(ReqA)

(* C18, amended: once the object has stopped changing, the cache entry     *)
(* eventually equals the object's conditions, and the counter has          *)
(* eventually been incremented for the final status of every condition     *)
(* whose final status is True or False.                                    *)
C18_StableTrueOrFalseCounted ==
    /\ <>[](\A t \in {ConditionReady} \cup Dependents :
               FinalStatus(ReqA, t) \in {"True", "False"} =>
                   CountedInto(t, FinalStatus(ReqA, t)))
    /\ <>[]CacheCaughtUp(ReqA)

C18_Witness ==
    /\ Quiescent
    /\ audit.overlapped
    /\ audit.anomalies # {}
    /\ <<ReqA, ConditionTypeFoo>> \in audit.changed
    /\ writes > 1
    /\ FinalStatus(ReqA, ConditionTypeFoo) = "True"
    /\ CountedInto(ConditionTypeFoo, "True")
    /\ CacheCaughtUp(ReqA)

\* the goroutine has written the current family and not yet the deprecated one
MidPair(g) ==
    /\ goroutines[g].pc = "calls"
    /\ Head(goroutines[g].calls).fam = "deprecated"

(* C19 as stated: the write to the deprecated family carries the value and *)
(* the labels of the write to the current family plus the kind label, and  *)
(* between the two writes of a goroutine no metric family is written by    *)
(* another goroutine.                                                      *)
C19_FanOutIsAtomicPair ==
    [][\A g \in Goroutines :
        MidPair(g) =>
            LET call == Head(goroutines[g].calls)
            IN  /\ \A m \in MetricNames : c'[m] = c[m]
                /\ \/ pkg' = pkg
                   \/ /\ goroutines'[g] # goroutines[g]
                      /\ pkg' = [pkg EXCEPT ![call.metric] =
                                    applyCall(@, call, WithKind(call.labels))]]_vars

\* both goroutines have returned and the two families disagree on a gauge
C19_Witness ==
    /\ Quiescent
    /\ \E l \in DOMAIN c.ConditionCurrentStatusSeconds :
          /\ WithKind(l) \in DOMAIN pkg.ConditionCurrentStatusSeconds
          /\ c.ConditionCurrentStatusSeconds[l]
                # pkg.ConditionCurrentStatusSeconds[WithKind(l)]

(* C20 as stated: every sample of the condition-transition-seconds         *)
(* histograms and every value of the condition-current-status-seconds and  *)
(* termination-current-time-seconds gauges is non-negative.                *)
C20_NoNegativeValue ==
    /\ \A l \in DOMAIN c.ConditionDuration :
          \A v \in BagToSet(c.ConditionDuration[l]) : v >= 0
    /\ \A l \in DOMAIN pkg.ConditionDuration :
          \A v \in BagToSet(pkg.ConditionDuration[l]) : v >= 0
    /\ \A m \in {"ConditionCurrentStatusSeconds", "TerminationCurrentTimeSeconds"} :
          /\ \A l \in DOMAIN c[m] : c[m][l] >= 0
          /\ \A l \in DOMAIN pkg[m] : pkg[m][l] >= 0

----------------------------------------------------------------------------
(* The text of an event: the pieces of the format string and its arguments *)
(* in order.                                                               *)

EventText(t, previousStatus, status, reason, message) ==
    IF message = ""
    THEN <<"Status condition transitioned, Type: ", t, ", Status: ", previousStatus,
           " -> ", status, ", Reason: ", reason>>
    ELSE <<"Status condition transitioned, Type: ", t, ", Status: ", previousStatus,
           " -> ", status, ", Reason: ", reason, ", Message: ", message>>

(* C21: every event a reconciliation emits is about a condition of the     *)
(* fetched object that also exists in the previous observation; its        *)
(* message names the condition's type, the status of the previously        *)
(* observed condition, the current status and the current reason, and ends *)
(* with the message suffix exactly when the current condition's message is *)
(* not empty; the previous status shown differs from the current one.      *)
C21_EventMessage ==
    [][\A req \in Requests : ReconcileFound(req) =>
        \A i \in (Len(recorder) + 1)..Len(recorder') :
            LET event == recorder'[i]
                x == Get(kubeClient[req].conditions, event.reason)
                y == Get(Previous(req), event.reason)
            IN  /\ x # NilCondition
                /\ y # NilCondition
                /\ event.message = EventText(x.Type, y.Status, x.Status, x.Reason, x.Message)
                /\ Len(event.message) = (IF x.Message = "" THEN 8 ELSE 10)
                /\ event.message[4] # x.Status]_vars

C21_Witness ==
    /\ last.outcome = "found"
    /\ Len(recorder) > 1
    /\ \E i \in DOMAIN recorder : Len(recorder[i].message) = 8
    /\ recorder[Len(recorder)].object = last.req
    /\ Len(recorder[Len(recorder)].message) = 10
    /\ recorder[Len(recorder)].message[4]
          = StatusIn(last.observed, recorder[Len(recorder)].reason)
    /\ recorder[Len(recorder)].message[6]
          = StatusIn(last.o.conditions, recorder[Len(recorder)].reason)

(* C22: no reconciliation, whatever the outcome of its fetch, writes to    *)
(* the object store: the objects that exist and their conditions and       *)
(* deletion timestamps are the same after it as before it, and the store   *)
(* changes only in steps of the other actors.                              *)
C22_StoreOnlyRead ==
    [][/\ \A req \in Requests :
             ReconcileFound(req) \/ ReconcileNotFound(req) \/ ReconcileError(req) =>
                 /\ kubeClient' = kubeClient
                 /\ writes' = writes
       /\ kubeClient' # kubeClient => writes' = writes + 1 /\ last' = last]_vars

C22_Witness ==
    /\ last.outcome = "found"
    /\ last.req \in DOMAIN kubeClient
    /\ kubeClient[last.req] = last.o
    /\ last.o.conditions = <<>>
    /\ last.o.deletionTimestamp # NilTime
    /\ writes > 1

----------------------------------------------------------------------------
(* The condition set *)

Others(cs) == {x \in Elems(cs) : x.Type # ConditionReady}

ReadyDerived(cs) ==
    /\ Has(cs, ConditionReady)
    /\ StatusIn(cs, ConditionReady) = "True" <=> \A x \in Others(cs) : x.Status = "True"
    /\ (\E x \in Others(cs) : x.Status = "False") => StatusIn(cs, ConditionReady) = "False"
    /\ (/\ \A x \in Others(cs) : x.Status # "False"
        /\ \E x \in Others(cs) : x.Status = "Unknown")
          => StatusIn(cs, ConditionReady) = "Unknown"

Mutates(req, t) ==
    \/ ApplySetTrue(req, t)
    \/ ApplySetTrueWithReason(req, t)
    \/ ApplySetFalse(req, t)
    \/ ApplySetUnknown(req, t)
    \/ ApplyClear(req, t)

(* C23: after every SetTrue, SetTrueWithReason, SetFalse, SetUnknown and   *)
(* Clear, in any sequence, the set holds a Ready condition that is True    *)
(* exactly when every other condition is True, False when another          *)
(* condition is False, and Unknown when none is False and one is Unknown;  *)
(* and a reconciliation that fetches both declared conditions publishes    *)
(* the Ready gauge under Unknown while one of them is Unknown and none is  *)
(* False, and under True when both are True.                               *)
C23_ReadyIsDerived ==
    [][/\ \A t \in DeclaredTypes :
             Mutates(ReqA, t) => ReadyDerived(kubeClient'[ReqA].conditions)
       /\ ReconcileFound(ReqA) =>
             LET cs == kubeClient[ReqA].conditions
                 foo == StatusIn(cs, ConditionTypeFoo)
                 bar == StatusIn(cs, ConditionTypeBar)
                 published == {l.status : l \in {k \in DOMAIN c'.ConditionCount :
                                                    k.type = ConditionReady}}
             IN  (Has(cs, ConditionTypeFoo) /\ Has(cs, ConditionTypeBar)) =>
                    /\ (foo = "True" /\ bar = "True") => published = {"True"}
                    /\ ("Unknown" \in {foo, bar} /\ "False" \notin {foo, bar})
                          => published = {"Unknown"}]_vars

C23_Witness ==
    /\ last.outcome = "found"
    /\ StatusIn(last.observed, ConditionTypeFoo) = "True"
    /\ StatusIn(last.observed, ConditionTypeBar) = "Unknown"
    /\ StatusIn(last.observed, ConditionReady) = "Unknown"
    /\ StatusIn(last.o.conditions, ConditionTypeFoo) = "True"
    /\ StatusIn(last.o.conditions, ConditionTypeBar) = "True"
    /\ StatusIn(last.o.conditions, ConditionReady) = "True"
    /\ \E l \in DOMAIN c.ConditionCount : l.type = ConditionReady /\ l.status = "True"

TimeIn(cs, t) == cs[CHOOSE i \in DOMAIN cs : cs[i].Type = t].LastTransitionTime

SetsTo(req, t, status) ==
    CASE status = "True" -> ApplySetTrue(req, t) \/ ApplySetTrueWithReason(req, t)
      [] status = "False" -> ApplySetFalse(req, t)
      [] status = "Unknown" -> ApplySetUnknown(req, t)

(* C24: setting a condition to the status it has leaves its                *)
(* LastTransitionTime as it was; setting it to another status, or setting  *)
(* a condition the set does not hold, stamps it with the current instant;  *)
(* in both cases Ready is re-derived and keeps its LastTransitionTime      *)
(* unless its status changes, in which case it is stamped with the current *)
(* instant; the conditions of other types are left as they were.           *)
C24_LastTransitionTime ==
    [][\A t \in DeclaredTypes : \A status \in {"True", "False", "Unknown"} :
        SetsTo(ReqA, t, status) =>
            LET before == kubeClient[ReqA].conditions
                after == kubeClient'[ReqA].conditions
            IN  /\ StatusIn(after, t) = status
                /\ TimeIn(after, t) =
                      (IF Has(before, t) /\ StatusIn(before, t) = status
                       THEN TimeIn(before, t) ELSE now)
                /\ ReadyDerived(after)
                /\ TimeIn(after, ConditionReady) =
                      (IF StatusIn(after, ConditionReady) = StatusIn(before, ConditionReady)
                       THEN TimeIn(before, ConditionReady) ELSE now)
                /\ \A u \in DeclaredTypes \ {t} : Get(after, u) = Get(before, u)]_vars

C24_Witness ==
    LET cs == kubeClient[ReqA].conditions
    IN  /\ now = 2
        /\ writes = 2
        /\ audit.changed = {<<ReqA, ConditionTypeFoo>>}
        /\ Get(cs, ConditionTypeBar) = Get(Declared.conditions, ConditionTypeBar)
        /\ StatusIn(cs, ConditionTypeFoo) = "True"
        /\ Get(cs, ConditionTypeFoo).Reason = "reason"
        /\ TimeIn(cs, ConditionTypeFoo) = 1
        /\ StatusIn(cs, ConditionReady) = "Unknown"
        /\ TimeIn(cs, ConditionReady) = 0

----------------------------------------------------------------------------
(* Sequential reconciliations: what they leave behind *)

CountSeries(req) ==
    {l \in DOMAIN c.ConditionCount : l.namespace = req.Namespace /\ l.name = req.Name}

PkgCountSeries(req) ==
    {l \in DOMAIN pkg.ConditionCount : l.namespace = req.Namespace /\ l.name = req.Name}

(* C26 as stated: when a reconciliation that found the object has          *)
(* returned, the condition-count series of the identity are exactly the    *)
(* series of the type, status and reason of the fetched conditions, in     *)
(* both families, so that no two series of the identity have the same      *)
(* condition type.                                                         *)
C26_SeriesAreFetchedConditions ==
    last.outcome = "found" =>
        /\ CountSeries(last.req)
              = {ConditionLabels(last.req, x) : x \in Elems(last.o.conditions)}
        /\ PkgCountSeries(last.req)
              = {WithKind(ConditionLabels(last.req, x)) : x \in Elems(last.o.conditions)}
        /\ \A k, l \in CountSeries(last.req) : k.type = l.type => k = l

\* a reconciliation has returned and left two series of one type and status
C26_Witness ==
    /\ last.outcome = "found"
    /\ \E k, l \in CountSeries(last.req) :
          /\ k.type = ConditionTypeFoo
          /\ l.type = ConditionTypeFoo
          /\ k.status = l.status
          /\ k.reason # l.reason
          /\ \E x \in Elems(last.o.conditions) : ConditionLabels(last.req, x) = k
          /\ \E y \in Elems(last.observed) : ConditionLabels(last.req, y) = l

(* C27 as stated: the termination-duration histogram of each family holds  *)
(* at most one sample for every finalized deletion of the reconciled       *)
(* identity, however often the identity is reconciled after the object is  *)
(* gone.                                                                   *)
C27_OneSamplePerDeletion ==
    /\ TotalSamples(c.TerminationDuration) <= Finalizations(ReqA)
    /\ BagCardinality(Samples(pkg.TerminationDuration, WithKind(TerminationLabels)))
          <= Finalizations(ReqA)

\* the object was deleted once and two not-found reconciliations each added a sample
C27_Witness ==
    /\ last.outcome = "notfound"
    /\ last.req = ReqA
    /\ Finalizations(ReqA) = 1
    /\ writes = 2
    /\ ReqA \notin DOMAIN kubeClient
    /\ TotalSamples(c.TerminationDuration) = 2
    /\ BagCardinality(Samples(pkg.TerminationDuration, WithKind(TerminationLabels))) = 2

\* the reconciliation before this one was of the same identity and did not find it
FirstAfterFinalized(req) ==
    /\ ReconcileFound(req)
    /\ last.outcome = "notfound"
    /\ last.req = req

(* C28 as stated: the first reconciliation of an object created again      *)
(* under an identity whose previous reconciliation returned not-found      *)
(* treats every condition as first-seen: it observes no                    *)
(* condition-transition-seconds sample, emits no event, deletes no gauge   *)
(* series, increments the counter once for every condition that is True or *)
(* False; and it leaves no deletion timestamp recorded for the identity    *)
(* other than the new object's own, so that a later not-found              *)
(* reconciliation cannot measure from the old object's timestamp.          *)
C28_RecreatedIsFirstSeen ==
    [][\A req \in Requests : FirstAfterFinalized(req) =>
        /\ c'.ConditionDuration = c.ConditionDuration
        /\ pkg'.ConditionDuration = pkg.ConditionDuration
        /\ recorder' = recorder
        /\ \A m \in GaugeNames :
              DOMAIN c[m] \subseteq DOMAIN c'[m] /\ DOMAIN pkg[m] \subseteq DOMAIN pkg'[m]
        /\ \A x \in Elems(kubeClient[req].conditions) :
              CounterDelta("ConditionTransitionsTotal", TransitionLabels(x))
                  = (IF x.Status = "Unknown" THEN 0 ELSE 1)
        /\ Loaded(c'.terminatingObjects, req) =>
              c'.terminatingObjects[req] = kubeClient[req].deletionTimestamp]_vars

\* the re-created object has been reconciled once: a transition from the old
\* object's status was announced and the old deletion timestamp is still recorded
C28_Witness ==
    /\ last.outcome = "found"
    /\ last.req = ReqA
    /\ Finalizations(ReqA) = 1
    /\ last.o.deletionTimestamp = NilTime
    /\ last.observed = Terminating.conditions
    /\ recorder # <<>>
    /\ c.ConditionDuration # EmptyMap
    /\ TotalSamples(c.TerminationDuration) > 0
    /\ Loaded(c.terminatingObjects, ReqA)
    /\ c.terminatingObjects[ReqA] = Terminating.deletionTimestamp

----------------------------------------------------------------------------
(* Reconciliations around the removal of the object *)

Gone(req) == req \notin DOMAIN kubeClient

\* the model stops observing termination durations at MaxSamples, and with
\* them the not-found reconciliations of an identity with a recorded timestamp
WithinSamples == TotalSamples(c.TerminationDuration) < MaxSamples

(* C29: once the object is removed from the store, whatever the            *)
(* interleaving of the invocations that fetched it before with those that  *)
(* do not find it, from some moment on no condition-count,                 *)
(* condition-current-status-seconds or termination-current-time-seconds    *)
(* series of the identity exists in either family.                         *)
C29_SeriesEventuallyGone ==
    <>[](Gone(ReqA) /\ WithinSamples => ~SeriesRemain(ReqA))

\* every invocation has returned, one of them not having found the object (it
\* observed a termination duration and deleted every series), and series set
\* by an invocation that had fetched the object before its removal remain
C29_Witness ==
    /\ Gone(ReqA)
    /\ \A g \in Goroutines : goroutines[g].pc = "idle"
    /\ audit.overlapped
    /\ TotalSamples(c.TerminationDuration) = 1
    /\ BagCardinality(Samples(pkg.TerminationDuration, WithKind(TerminationLabels))) = 1
    /\ SeriesOf(ReqA, "ConditionCount") # {}
    /\ SeriesOf(ReqA, "TerminationCurrentTimeSeconds") # {}
    /\ ENABLED Revisit(ReqA)

\* the reconciliation before this one was of the same identity and fetched the
\* object as it is now
SecondOfUnchanged(req) ==
    /\ ReconcileFound(req)
    /\ last.outcome = "found"
    /\ last.req = req
    /\ last.o = kubeClient[req]

(* C30: a reconciliation that directly follows a found-reconciliation of   *)
(* the same identity, the fetched object being the same, increments no     *)
(* counter, observes no sample, emits no event, deletes and creates no     *)
(* gauge series, leaves the condition-count values, the cache entry and    *)
(* the recorded deletion timestamps as they were, and returns the same     *)
(* result; only the values of the time-valued gauges may change.           *)
C30_SecondReconcileIdempotent ==
    [][\A req \in Requests : SecondOfUnchanged(req) =>
        /\ c'.ConditionTransitionsTotal = c.ConditionTransitionsTotal
        /\ pkg'.ConditionTransitionsTotal = pkg.ConditionTransitionsTotal
        /\ c'.ConditionDuration = c.ConditionDuration
        /\ pkg'.ConditionDuration = pkg.ConditionDuration
        /\ c'.TerminationDuration = c.TerminationDuration
        /\ pkg'.TerminationDuration = pkg.TerminationDuration
        /\ recorder' = recorder
        /\ \A m \in GaugeNames :
              DOMAIN c'[m] = DOMAIN c[m] /\ DOMAIN pkg'[m] = DOMAIN pkg[m]
        /\ c'.ConditionCount = c.ConditionCount
        /\ pkg'.ConditionCount = pkg.ConditionCount
        /\ c'.observedConditions = c.observedConditions
        /\ c'.terminatingObjects = c.terminatingObjects
        /\ last'.result = last.result]_vars

C30_Witness ==
    /\ last.outcome = "found"
    /\ last.loaded
    /\ last.observed = last.o.conditions
    /\ Len(last.o.conditions) > 1
    /\ last.now = 2
    /\ \A x \in Elems(last.o.conditions) : x.LastTransitionTime = 1
    /\ \A x \in Elems(last.o.conditions) :
          /\ ConditionLabels(last.req, x) \in DOMAIN c.ConditionCurrentStatusSeconds
          /\ c.ConditionCurrentStatusSeconds[ConditionLabels(last.req, x)] = 1
    /\ c.ConditionTransitionsTotal # EmptyMap
    /\ \A l \in DOMAIN c.ConditionTransitionsTotal : c.ConditionTransitionsTotal[l] = 1

(* C31: transition detection is lossy between observations.  When the     *)
(* status of a condition changed after the previous reconciliation of the  *)
(* identity fetched it and is back at the fetched value when the next one  *)
(* runs, that reconciliation counts no transition, observes no sample and  *)
(* emits no event for the condition; when the status is another one,       *)
(* however many statuses it passed through, the reconciliation counts one  *)
(* transition, into the current status, observes one sample, under the     *)
(* previously fetched status, and emits one event, from the previously     *)
(* fetched status to the current one.                                      *)
C31_LossyBetweenObservations ==
    [][\A req \in Requests : ReconcileFound(req) /\ req \in DOMAIN stored =>
        \A x \in Elems(kubeClient[req].conditions) :
            LET y == Get(stored[req], x.Type)
                others == {l \in DOMAIN c'.ConditionTransitionsTotal
                                 \cup DOMAIN c'.ConditionDuration : l.type = x.Type}
            IN  y # NilCondition =>
                  IF y.Status = x.Status
                  THEN /\ TypeUntouched("ConditionTransitionsTotal", x.Type)
                       /\ TypeUntouched("ConditionDuration", x.Type)
                       /\ NoEventOfType(x.Type)
                  ELSE /\ CounterDelta("ConditionTransitionsTotal", TransitionLabels(x)) = 1
                       /\ SampleDelta("ConditionDuration", DurationLabels(y)) = 1
                       /\ \A l \in others \ {TransitionLabels(x), DurationLabels(y)} :
                             /\ CounterDelta("ConditionTransitionsTotal", l) = 0
                             /\ SampleDelta("ConditionDuration", l) = 0
                       /\ SameFamilies("ConditionTransitionsTotal")
                       /\ SameFamilies("ConditionDuration")
                       /\ EventsKept
                       /\ Emitted(req, x.Type) = 1
                       /\ \E i \in (Len(recorder) + 1)..Len(recorder') :
                             recorder'[i].message
                                = EventText(x.Type, y.Status, x.Status, x.Reason, x.Message)]_vars

\* Foo was fetched as True at the start, became False and True again (two
\* writes, the second at a later time than the fetched LastTransitionTime),
\* and the reconciliation after them recorded nothing for it
LossyRoundTrip ==
    /\ writes = 2
    /\ last.outcome = "found" /\ last.loaded
    /\ last.o = kubeClient[ReqA]
    /\ Get(last.observed, ConditionTypeFoo).Status = "True"
    /\ Get(last.observed, ConditionTypeFoo).LastTransitionTime = 0
    /\ Get(last.o.conditions, ConditionTypeFoo).Status = "True"
    /\ Get(last.o.conditions, ConditionTypeFoo).LastTransitionTime > 0
    /\ c.ConditionTransitionsTotal
          = TransitionLabels(Get(last.observed, ConditionTypeFoo)) :> 1
            @@ TransitionLabels(Get(last.observed, ConditionReady)) :> 1
    /\ c.ConditionDuration = EmptyMap
    /\ recorder = <<>>

\* Foo was fetched as True at the start and is False after two writes, so it
\* was Unknown in between; the reconciliation after them recorded True -> False
LossyIntermediate ==
    /\ writes = 2
    /\ last.outcome = "found" /\ last.loaded
    /\ last.o = kubeClient[ReqA]
    /\ Get(last.observed, ConditionTypeFoo).Status = "True"
    /\ Get(last.o.conditions, ConditionTypeFoo).Status = "False"
    /\ \A l \in DOMAIN c.ConditionTransitionsTotal :
          l.type = ConditionTypeFoo => l.status # "Unknown"
    /\ \A l \in DOMAIN c.ConditionDuration :
          l.type = ConditionTypeFoo => l.status = "True"
    /\ \E i \in DOMAIN recorder :
          /\ recorder[i].reason = ConditionTypeFoo
          /\ recorder[i].message[4] = "True" /\ recorder[i].message[6] = "False"
    /\ \A i \in DOMAIN recorder :
          recorder[i].reason = ConditionTypeFoo => recorder[i].message[4] = "True"

C31_Witness ==
    \/ LossyRoundTrip
    \/ LossyIntermediate

\* the deprecated family holds the series of the current one, kind label added
SameSeries(metric) ==
    DOMAIN pkg[metric] = {WithKind(l) : l \in DOMAIN c[metric]}

(* C32 as stated: whenever no reconciliation is in progress, the           *)
(* per-kind-named family and the kind-disambiguated family of every metric *)
(* hold the same gauge series (the kind label apart), the same counter     *)
(* values and the same number of histogram samples for every label set.    *)
C32_FamiliesAgreeAtRest ==
    Quiescent =>
        /\ \A m \in GaugeNames : SameSeries(m)
        /\ SameSeries("ConditionTransitionsTotal")
        /\ \A l \in DOMAIN c.ConditionTransitionsTotal :
              pkg.ConditionTransitionsTotal[WithKind(l)] = c.ConditionTransitionsTotal[l]
        /\ \A m \in {"ConditionDuration", "TerminationDuration"} :
              /\ SameSeries(m)
              /\ \A l \in DOMAIN c[m] :
                    BagCardinality(pkg[m][WithKind(l)]) = BagCardinality(c[m][l])

\* every invocation has returned, the object is gone, and a condition-count
\* series of the identity is left in the kind-disambiguated family only
C32_Witness ==
    /\ Quiescent
    /\ audit.overlapped
    /\ ReqA \notin DOMAIN kubeClient
    /\ c.ConditionCount = EmptyMap
    /\ \E l \in DOMAIN pkg.ConditionCount : PartialMatch(l, ObjectLabels(ReqA))

\* the series of a gauge family that carry the identity's namespace and name
Labelled(gauge, req) ==
    [l \in {x \in DOMAIN gauge : x.namespace = req.Namespace /\ x.name = req.Name}
        |-> gauge[l]]

\* what the controller holds for one identity: its two map entries and its
\* gauge series in both families
Holdings(s, req) ==
    [observed |-> IF Loaded(s.c.observedConditions, req)
                  THEN <<s.c.observedConditions[req]>> ELSE <<>>,
     terminating |-> IF Loaded(s.c.terminatingObjects, req)
                     THEN <<s.c.terminatingObjects[req]>> ELSE <<>>,
     current |-> [m \in GaugeNames |-> Labelled(s.c[m], req)],
     deprecated |-> [m \in GaugeNames |-> Labelled(s.pkg[m], req)]]

\* the same controller without anything it holds for the identity
Without(s, req) ==
    [s EXCEPT
        !.c = [f \in DOMAIN s.c |->
                 IF f \in {"observedConditions", "terminatingObjects"}
                 THEN [k \in DOMAIN s.c[f] \ {req} |-> s.c[f][k]]
                 ELSE IF f \in GaugeNames
                 THEN [l \in DOMAIN s.c[f] \ DOMAIN Labelled(s.c[f], req) |-> s.c[f][l]]
                 ELSE s.c[f]],
        !.pkg = [f \in DOMAIN s.pkg |->
                   IF f \in GaugeNames
                   THEN [l \in DOMAIN s.pkg[f] \ DOMAIN Labelled(s.pkg[f], req)
                            |-> s.pkg[f][l]]
                   ELSE s.pkg[f]]]

After == [c |-> c', pkg |-> pkg', recorder |-> recorder']

(* C33: a reconciliation of one identity, found or not found, leaves what  *)
(* the controller holds for any other identity as it was (cache entry,     *)
(* recorded deletion timestamp, gauge series labelled with that identity's *)
(* namespace and name, in both families), and does what it would do if the *)
(* controller held nothing for the other identity; the counter and         *)
(* histogram series carry no namespace and no name.                        *)
C33_OtherIdentitiesUntouched ==
    [][\A req \in Requests : ReconcileFound(req) \/ ReconcileNotFound(req) =>
        /\ \A other \in Requests \ {req} :
              /\ Holdings(After, other) = Holdings(Invocation, other)
              /\ Without(After, other)
                    = IF req \in DOMAIN kubeClient
                      THEN reconcileFound(Without(Invocation, other), req, kubeClient[req], now)
                      ELSE reconcileNotFound(Without(Invocation, other), req, now)
        /\ \A m \in MetricNames \ GaugeNames :
              \A l \in DOMAIN c'[m] \cup DOMAIN pkg'[m] :
                  "namespace" \notin DOMAIN l /\ "name" \notin DOMAIN l]_vars

\* a was reconciled, removed and reconciled again, its series deleted by
\* partial match; b, in the same namespace, keeps its cache entry and its
\* series, and one counter series has been incremented for both
C33_Witness ==
    /\ last.req = ReqA /\ last.outcome = "notfound" /\ last.loaded
    /\ ReqA \in DOMAIN stored /\ stored[ReqA] # <<>>
    /\ \A m \in GaugeNames : Labelled(c[m], ReqA) = EmptyMap
    /\ Loaded(c.observedConditions, ReqB)
    /\ \A m \in {"ConditionCount", "ConditionCurrentStatusSeconds"} :
          Labelled(c[m], ReqB) # EmptyMap /\ Labelled(pkg[m], ReqB) # EmptyMap
    /\ \E l \in DOMAIN c.ConditionTransitionsTotal : c.ConditionTransitionsTotal[l] = 2

\* every series of the counter is still there with a value at least as large
CounterKept(before, after) ==
    \A l \in DOMAIN before : l \in DOMAIN after /\ after[l] >= before[l]

\* every series of the histogram is still there with every sample it had
SamplesKept(before, after) ==
    \A l \in DOMAIN before : l \in DOMAIN after /\ before[l] \sqsubseteq after[l]

(* C34: no step of any actor or reconciliation (found, not found or        *)
(* failed) lowers a condition-transitions-total counter or removes a       *)
(* sample or a series of the condition-transition-seconds and              *)
(* termination-duration histograms, in either family, also when the object *)
(* they were recorded for is deleted.                                      *)
C34_CountersAndSamplesOnlyGrow ==
    [][/\ CounterKept(c.ConditionTransitionsTotal, c'.ConditionTransitionsTotal)
       /\ CounterKept(pkg.ConditionTransitionsTotal, pkg'.ConditionTransitionsTotal)
       /\ \A m \in {"ConditionDuration", "TerminationDuration"} :
             /\ SamplesKept(c[m], c'[m])
             /\ SamplesKept(pkg[m], pkg'[m])]_vars

\* the object is gone and its gauge series with it; the transitions counted
\* and the durations observed for it are still there
C34_Witness ==
    /\ last.outcome = "notfound" /\ last.loaded
    /\ ReqA \notin DOMAIN kubeClient
    /\ ~SeriesRemain(ReqA)
    /\ \E l \in DOMAIN c.ConditionTransitionsTotal :
          /\ c.ConditionTransitionsTotal[l] > 0
          /\ pkg.ConditionTransitionsTotal[WithKind(l)] > 0
    /\ \E m \in {"ConditionDuration", "TerminationDuration"} :
          \E l \in DOMAIN c[m] :
             BagCardinality(c[m][l]) > 0 /\ BagCardinality(pkg[m][WithKind(l)]) > 0

\* the sum of the values of all series of a counter
RECURSIVE Total(_)
Total(counter) ==
    IF DOMAIN counter = {} THEN 0
    ELSE LET l == CHOOSE x \in DOMAIN counter : TRUE
         IN  counter[l] + Total([k \in DOMAIN counter \ {l} |-> counter[k]])

\* the number of samples of all series of a histogram
RECURSIVE Observations(_)
Observations(histogram) ==
    IF DOMAIN histogram = {} THEN 0
    ELSE LET l == CHOOSE x \in DOMAIN histogram : TRUE
         IN  BagCardinality(histogram[l])
                + Observations([k \in DOMAIN histogram \ {l} |-> histogram[k]])

(* C35: with the v1 handlers installed, the requests counted by            *)
(* total-requests, the request-latency samples and the retry-count samples *)
(* are each as many as the requests the SDK has completed, and the         *)
(* attempts counted by total-request-attempts and the attempt-latency      *)
(* samples are each as many as the attempts it has completed; when every   *)
(* completed request had an attempt, the attempts counted are at least as  *)
(* many as the requests counted.                                           *)
C35_OncePerRequestAndAttempt ==
    /\ Total(sdk.registry.TotalRequests) = sdk.completed.requests
    /\ Observations(sdk.registry.RequestLatency) = sdk.completed.requests
    /\ Observations(sdk.registry.RetryCount) = sdk.completed.requests
    /\ Total(sdk.registry.TotalRequestAttempts) = sdk.completed.attempts
    /\ Observations(sdk.registry.RequestAttemptLatency) = sdk.completed.attempts
    /\ sdk.completed.unattempted = 0 =>
          Total(sdk.registry.TotalRequestAttempts) >= Total(sdk.registry.TotalRequests)

\* two requests completed, one of them after a retry: three attempts counted,
\* the failed one under its own status code
C35_Witness ==
    /\ sdk.r.phase = "none"
    /\ sdk.completed = [requests |-> 2, attempts |-> 3, unattempted |-> 0]
    /\ Total(sdk.registry.TotalRequestAttempts) = 3
    /\ Total(sdk.registry.TotalRequests) = 2
    /\ \E l \in DOMAIN sdk.registry.TotalRequestAttempts : l.status_code = 500
    /\ \E l \in DOMAIN sdk.registry.RetryCount : 1 \in BagToSet(sdk.registry.RetryCount[l])
    /\ \E l \in DOMAIN sdk.registry.RequestAttemptLatency :
          \E v \in BagToSet(sdk.registry.RequestAttemptLatency[l]) : v > 0

\* the attempts of the data that ended with the status code
AttemptsWith(data, statusCode) ==
    Cardinality({i \in DOMAIN data.Attempts : data.Attempts[i].StatusCode = statusCode})

RegistryCounterDelta(metric, labels) ==
    CounterValue(sdk'.registry[metric], labels) - CounterValue(sdk.registry[metric], labels)

RegistrySampleDelta(metric, labels) ==
    BagCardinality(Samples(sdk'.registry[metric], labels))
        - BagCardinality(Samples(sdk.registry[metric], labels))

(* C36 as stated: a call of PostRequestMetrics counts every attempt in     *)
(* total-request-attempts and observes its latency under one and the same  *)
(* label set, service, operation and the attempt's status code; it         *)
(* increments total-requests once and observes request latency and retry   *)
(* count once, under the request's labels, and returns nil.                *)
C36_AttemptLabelsAgree ==
    [][\A data \in MetricData : PostRequestMetrics(data) =>
        LET labels == RequestLabels(data.ServiceID, data.OperationName, data.StatusCode)
        IN  /\ \A statusCode \in StatusCodes :
                  LET attemptLabels ==
                          RequestLabels(data.ServiceID, data.OperationName, statusCode)
                  IN  /\ RegistryCounterDelta("TotalRequestAttempts", attemptLabels)
                            = AttemptsWith(data, statusCode)
                      /\ RegistrySampleDelta("RequestAttemptLatency", attemptLabels)
                            = AttemptsWith(data, statusCode)
            /\ RegistryCounterDelta("TotalRequests", labels) = 1
            /\ RegistrySampleDelta("RequestLatency", labels) = 1
            /\ RegistrySampleDelta("RetryCount", labels) = 1
            /\ Total(sdk'.registry.TotalRequests) = Total(sdk.registry.TotalRequests) + 1
            /\ Observations(sdk'.registry.RequestLatency)
                  = Observations(sdk.registry.RequestLatency) + 1
            /\ Observations(sdk'.registry.RetryCount)
                  = Observations(sdk.registry.RetryCount) + 1
            /\ sdk'.returned = "nil"]_vars

\* one request, failed with 500 and retried with 200: the failed attempt is
\* counted under 500 and both attempt latencies are observed under 200
C36_Witness ==
    /\ sdk.completed.requests = 1
    /\ sdk.posted.StatusCode = 200
    /\ Len(sdk.posted.Attempts) = 2
    /\ sdk.posted.Attempts[1].StatusCode = 500
    /\ sdk.posted.Attempts[2].StatusCode = 200
    /\ LET failed == RequestLabels(sdk.posted.ServiceID, sdk.posted.OperationName, 500)
           succeeded == RequestLabels(sdk.posted.ServiceID, sdk.posted.OperationName, 200)
       IN  /\ sdk.registry.TotalRequestAttempts = failed :> 1 @@ succeeded :> 1
           /\ DOMAIN sdk.registry.RequestAttemptLatency = {succeeded}
           /\ BagCardinality(sdk.registry.RequestAttemptLatency[succeeded]) = 2
    /\ sdk.returned = "nil"

(* C37: NewController panics exactly when it is given more than one        *)
(* option; with none the controller's kind is that of the type parameter   *)
(* and with one it is the kind of the given GVK.                           *)
(* NewGenericObjectController passes exactly one option, the GVK of its    *)
(* object type, never panics, and its per-kind-named families are named    *)
(* after the lower-cased kind of the object, not after the adapter.        *)
C37_ControllerOptions ==
    \A i \in DOMAIN built :
        LET call == built[i]
            made == call.returned
        IN  /\ made.panicked <=> Len(call.opts) > 1
            /\ Len(call.opts) = 0 => made.objectGVK = GVK(call.T)
            /\ Len(call.opts) = 1 => made.objectGVK = call.opts[1].GVK
            /\ call.call = "NewGenericObjectController" =>
                  /\ Len(call.opts) = 1
                  /\ call.opts[1].GVK = GVK(call.T)
                  /\ ~made.panicked
                  /\ made.objectGVK.Kind = call.T
                  /\ \A m \in MetricNames :
                        /\ made.names[m] = <<"operator", ToLower(call.T), m>>
                        /\ made.names[m][2] # ToLower(UnstructuredAdapter)
            /\ ~made.panicked =>
                  \A m \in MetricNames :
                      made.names[m]
                         = <<"operator", ToLower(made.objectGVK.Kind), m>>

\* a generic controller for TestGenericObject, named after it, and a call of
\* NewController with two options, which panicked
C37_Witness ==
    /\ Len(built) = 2
    /\ built[1].call = "NewGenericObjectController"
    /\ built[1].T = "TestGenericObject"
    /\ built[1].returned.names["TerminationCurrentTimeSeconds"]
          = <<"operator", "testgenericobject", "TerminationCurrentTimeSeconds">>
    /\ built[2].call = "NewController"
    /\ Len(built[2].opts) = 2
    /\ built[2].returned.panicked

====
